---- MODULE Spec2Model ----
(***************************************************************************)
(* Secure storage prototype: SecureFileManager (file_manager.py) over      *)
(* MegaWrapper (mega_wrapper.py) and DatabaseManager (database.py), with   *)
(* the /audit route of app.py.                                             *)
(*                                                                         *)
(* Objects are modelled as records and their methods as operators from an  *)
(* object state to [the new object state, the returned value]; each        *)
(* workflow of SecureFileManager is one action composed of those calls in  *)
(* the order of the source.                                                *)
(***************************************************************************)
EXTENDS Integers, Sequences, FiniteSets, TLC

VARIABLES
    use_memory,  \* DatabaseManager.use_memory: the in-memory fallback is in use
    mongo,       \* the external database: [files, audit_logs] collections
    fm_mem,      \* file_manager.db's memory_files / memory_audit_logs
    app_mem,     \* app.py's db_manager's memory_files / memory_audit_logs
    m,           \* the MegaWrapper object and its ./mega_storage directory
    nuuid,       \* number of uuid4() values drawn so far
    clock,       \* the last value datetime.utcnow() returned
    last,        \* the last call made, what it returned and what it sent
                 \* to logging.error
    uploaded,    \* history: file_id -> what a successful upload_file stored
    deleted,     \* history: file_ids for which delete_file reported success
    scen,        \* history: progress of the reference scenario of the spec
    threads      \* the request threads: where each is in its workflow

vars == <<use_memory, mongo, fm_mem, app_mem, m, nuuid, clock, last,
          uploaded, deleted, scen, threads>>

----------------------------------------------------------------------------
(* Bounds of the model *)

\* uuid4() values drawn in a run
MaxUuid == 6

\* Audit entries written in a run; the reference scenario of the spec is
\* followed to its end whatever it writes
MaxAudit == 3

\* Downloads of one blob
MaxAccess == 1

\* utcnow() calls after which no request is served, in a run whose database
\* calls may fail
MaxStamps == 4

\* The largest limit a query is given; the limits stand for limit=50, which
\* no list of a run reaches
MaxLimit == 2

(* Program constants *)

MAX_FILE_SIZE_MB == 50

MaxFileSize == MAX_FILE_SIZE_MB * 1024 * 1024

ALLOWED_EXTENSIONS ==
    {"pdf", "doc", "docx", "txt", "jpg", "png", "jpeg", "csv", "xlsx"}

----------------------------------------------------------------------------
(* Inputs *)

Users == {"alice", "bob"}

\* requesting_user_id=None, the default of MegaWrapper.download
NoUser == "none"

\* A file_id no uuid4() call returned
UnknownId == 0

EmptyContent == "empty"

\* An uploaded file: its filename split at the dots, the size seek/tell
\* reports and the bytes read() returns.
Files ==
    { [filename |-> <<"report", "pdf">>, size |-> 3, content |-> "pdf-stub"],
      [filename |-> <<"notes", "TXT">>, size |-> MaxFileSize, content |-> "notes"],
      [filename |-> <<"blank", "pdf">>, size |-> 0, content |-> EmptyContent],
      [filename |-> <<"tool", "exe">>, size |-> 3, content |-> "binary"],
      [filename |-> <<"huge", "pdf">>, size |-> MaxFileSize + 1, content |-> "huge"],
      [filename |-> <<"README">>, size |-> 3, content |-> "readme"],
      [filename |-> << >>, size |-> 3, content |-> "anon"],
      [filename |-> <<"dir/scan", "jpg">>, size |-> 3, content |-> "scan"] }

\* Filename parts that hold a path separator
WithSeparator == {"dir/scan"}

\* str.lower() on the extensions the inputs use
Lower(s) ==
    CASE s = "PDF" -> "pdf"
      [] s = "TXT" -> "txt"
      [] s = "EXE" -> "exe"
      [] OTHER -> s

NoError == << >>

NoData == "no-data"

----------------------------------------------------------------------------
(* Helpers on finite maps and sequences *)

EmptyMap == << >>

Put(f, k, v) == (k :> v) @@ f

Remove(f, k) == [x \in DOMAIN f \ {k} |-> f[x]]

Min(S) == CHOOSE x \in S : \A y \in S : x <= y

\* The elements of s at the positions in keep, in the order of s
Only(s, keep) ==
    LET F[i \in 0..Len(s)] ==
            IF i = 0 THEN << >>
            ELSE IF i \in keep THEN Append(F[i - 1], s[i]) ELSE F[i - 1]
    IN  F[Len(s)]

Take(s, limit) == SubSeq(s, 1, IF Len(s) < limit THEN Len(s) ELSE limit)

----------------------------------------------------------------------------
(* cryptography.fernet: a token names the key that made it *)

encryption_key == "key-of-this-process"

\* Mutant: the bytes are passed on as they are
EncryptSkipped(key, data) == [token |-> "plain", key |-> "no-key", plaintext |-> data]

Encrypt(key, data) == [token |-> "fernet", key |-> key, plaintext |-> data]

\* Mutant: any bytes pass for a token of the key
CanDecryptAnything(key, blob) == TRUE

CanDecrypt(key, blob) == blob.token = "fernet" /\ blob.key = key

\* Mutant: the bytes read from the disk are returned as they are
DecryptSkipped(key, blob) == blob.token

Decrypt(key, blob) == blob.plaintext

----------------------------------------------------------------------------
(* MegaWrapper (mega_wrapper.py).  An object state mw is a record          *)
(*   folders      folder_id -> [name, path, user_id, files]                *)
(*   user_folders user_id -> folder_id                                     *)
(*   files        file_id -> the file's metadata                           *)
(*   dirs         the directories under ./mega_storage                     *)
(*   blobs        file path -> the bytes written there                     *)
(* The upload_time, created_at and last_accessed stamps of the wrapper are *)
(* written and never read by the workflows; they are left out.             *)

\* Path("./mega_storage")
StorageRoot == <<"mega_storage">>

NewMega ==
    [folders |-> EmptyMap, user_folders |-> EmptyMap, files |-> EmptyMap,
     dirs |-> {StorageRoot}, blobs |-> EmptyMap]

\* Mutant: the folder name does not hold the user_id
FolderNameOfAll(user_id) == <<"heal_ai_user_", "user_id">>

\* f"heal_ai_user_{user_id}"
FolderName(user_id) == <<"heal_ai_user_", user_id>>

\* Mutant: the loop finds no folder
FindUserFolderOfNone(mw, user_id) == 0

\* The loop of create_user_folder: the first folder, in insertion order,
\* whose name is the user's folder name; 0 when there is none.
FindUserFolder(mw, user_id) ==
    LET hits == {fid \in DOMAIN mw.folders :
                    mw.folders[fid].name = FolderName(user_id)}
    IN  IF hits = {} THEN 0 ELSE Min(hits)

\* The creating half of create_user_folder, with folder_id the fresh uuid
AddUserFolder(mw, user_id, folder_id) ==
    LET folder_path == StorageRoot \o <<FolderName(user_id)>>
    IN  [mw EXCEPT
            !.dirs = @ \cup {folder_path},
            !.folders = Put(@, folder_id,
                            [name |-> FolderName(user_id), path |-> folder_path,
                             user_id |-> user_id, files |-> << >>]),
            !.user_folders = Put(@, user_id, folder_id)]

\* create_user_folder(user_id), n uuids drawn before the call
create_user_folder(mw, user_id, n) ==
    LET found == FindUserFolder(mw, user_id)
    IN  IF found # 0
        THEN [m |-> mw, ret |-> found, uuids |-> n]
        ELSE [m |-> AddUserFolder(mw, user_id, n + 1), ret |-> n + 1,
              uuids |-> n + 1]

\* open(file_path, 'wb') fails when a component of the name is no directory
Writable(mw, path) ==
    /\ path.dir \in mw.dirs
    /\ \A i \in DOMAIN path.filename : path.filename[i] \notin WithSeparator

\* Mutant: the file_id is returned and nothing is written
uploadWritesNothing(mw, file, dest, dest_name, n) ==
    [m |-> mw, ret |-> n + 1, uuids |-> n + 1, raised |-> NoError]

\* Mutant: the test for empty file_data is missing
uploadOfEmpty(mw, file, dest, dest_name, n) ==
    LET file_id == n + 1
        known == dest # 0 /\ dest \in DOMAIN mw.folders
        file_path == [dir |-> IF known THEN mw.folders[dest].path ELSE StorageRoot,
                      prefix |-> file_id, owner_prefix |-> dest_name.prefix,
                      filename |-> dest_name.filename]
        listed == IF known
                  THEN [mw EXCEPT !.folders[dest].files = Append(@, file_id)]
                  ELSE mw
    IN  IF ~Writable(listed, file_path)
        THEN [m |-> listed, ret |-> 0, uuids |-> n + 1,
              raised |-> <<"No such file or directory">>]
        ELSE [m |-> [listed EXCEPT
                        !.blobs = Put(@, file_path,
                                      Encrypt(encryption_key, file.content)),
                        !.files = Put(@, file_id,
                                      [user_id |-> IF known
                                                   THEN mw.folders[dest].user_id
                                                   ELSE NoUser,
                                       filename |-> dest_name,
                                       size |-> file.size, encrypted |-> TRUE,
                                       file_id |-> file_id, folder_id |-> dest,
                                       file_path |-> file_path,
                                       access_count |-> 0])],
              ret |-> file_id, uuids |-> n + 1, raised |-> NoError]

\* upload(file_input, dest, dest_filename), n uuids drawn before the call;
\* dest = 0 stands for dest=None.  raised is the exception's text.
upload(mw, file, dest, dest_name, n) ==
    IF file.content = EmptyContent
    THEN [m |-> mw, ret |-> 0, uuids |-> n, raised |-> <<"File data is empty">>]
    ELSE
    LET file_id == n + 1
        known == dest # 0 /\ dest \in DOMAIN mw.folders
        user_id == IF known THEN mw.folders[dest].user_id ELSE NoUser
        encrypted_data == Encrypt(encryption_key, file.content)
        file_path == [dir |-> IF known THEN mw.folders[dest].path ELSE StorageRoot,
                      prefix |-> file_id, owner_prefix |-> dest_name.prefix,
                      filename |-> dest_name.filename]
        listed == IF known
                  THEN [mw EXCEPT !.folders[dest].files = Append(@, file_id)]
                  ELSE mw
    IN  IF ~Writable(listed, file_path)
        THEN [m |-> listed, ret |-> 0, uuids |-> n + 1,
              raised |-> <<"No such file or directory">>]
        ELSE [m |-> [listed EXCEPT
                        !.blobs = Put(@, file_path, encrypted_data),
                        !.files = Put(@, file_id,
                                      [user_id |-> user_id, filename |-> dest_name,
                                       size |-> file.size, encrypted |-> TRUE,
                                       file_id |-> file_id, folder_id |-> dest,
                                       file_path |-> file_path,
                                       access_count |-> 0])],
              ret |-> file_id, uuids |-> n + 1, raised |-> NoError]

\* check_file_in_user_folder(file_id, requesting_user_id)
check_file_in_user_folder(mw, file_id, requesting_user_id) ==
    /\ file_id \in DOMAIN mw.files
    /\ mw.files[file_id].user_id = requesting_user_id

\* Mutant: the folder is checked whatever requesting_user_id is
downloadAlwaysChecks(mw, file_id, requesting_user_id) ==
    IF file_id \notin DOMAIN mw.files
    THEN [m |-> mw, ret |-> NoData, raised |-> <<"File not found">>]
    ELSE IF ~check_file_in_user_folder(mw, file_id, requesting_user_id)
    THEN [m |-> mw, ret |-> NoData,
          raised |-> <<"Access denied - File not in user's folder">>]
    ELSE
    LET file_info == mw.files[file_id]
    IN  IF file_info.file_path \notin DOMAIN mw.blobs
        THEN [m |-> mw, ret |-> NoData,
              raised |-> <<"No such file or directory">>]
        ELSE IF ~CanDecrypt(encryption_key, mw.blobs[file_info.file_path])
        THEN [m |-> mw, ret |-> NoData, raised |-> <<"File decryption failed">>]
        ELSE [m |-> [mw EXCEPT !.files[file_id].access_count = @ + 1],
              ret |-> Decrypt(encryption_key, mw.blobs[file_info.file_path]),
              raised |-> NoError]

\* download(file_id, requesting_user_id=...); NoUser is falsy
download(mw, file_id, requesting_user_id) ==
    IF file_id \notin DOMAIN mw.files
    THEN [m |-> mw, ret |-> NoData, raised |-> <<"File not found">>]
    ELSE IF /\ requesting_user_id # NoUser
            /\ ~check_file_in_user_folder(mw, file_id, requesting_user_id)
    THEN [m |-> mw, ret |-> NoData,
          raised |-> <<"Access denied - File not in user's folder">>]
    ELSE
    LET file_info == mw.files[file_id]
    IN  IF file_info.file_path \notin DOMAIN mw.blobs
        THEN [m |-> mw, ret |-> NoData,
              raised |-> <<"No such file or directory">>]
        ELSE IF ~CanDecrypt(encryption_key, mw.blobs[file_info.file_path])
        THEN [m |-> mw, ret |-> NoData, raised |-> <<"File decryption failed">>]
        ELSE [m |-> [mw EXCEPT !.files[file_id].access_count = @ + 1],
              ret |-> Decrypt(encryption_key, mw.blobs[file_info.file_path]),
              raised |-> NoError]

\* get_user_files(user_id) of the wrapper: the files tagged with the
\* user_id, in the order of self.files
MegaWrapper_get_user_files(mw, user_id) ==
    LET ids == {f \in DOMAIN mw.files : mw.files[f].user_id = user_id}
        At(r) == CHOOSE f \in ids : Cardinality({g \in ids : g < f}) = r - 1
    IN  [r \in 1..Cardinality(ids) |->
            [file_id |-> At(r), filename |-> mw.files[At(r)].filename,
             size |-> mw.files[At(r)].size,
             access_count |-> mw.files[At(r)].access_count]]

\* The file branch of delete(item_id)
DeleteBlob(mw, item_id) ==
    [mw EXCEPT !.blobs = Remove(@, mw.files[item_id].file_path),
               !.files = Remove(@, item_id)]

\* Mutant: the blob and its entry are kept
deleteKeepsBlob(mw, item_id) == [m |-> mw, raised |-> NoError]

\* Mutant: an item_id that names nothing raises
deleteOfAbsentRaises(mw, item_id) ==
    IF item_id \in DOMAIN mw.files \cup DOMAIN mw.folders
    THEN IF item_id \in DOMAIN mw.files
         THEN [m |-> DeleteBlob(mw, item_id), raised |-> NoError]
         ELSE [m |-> [mw EXCEPT !.folders = Remove(@, item_id)], raised |-> NoError]
    ELSE [m |-> mw, raised |-> <<"File not found">>]

\* delete(item_id): a file, else a folder with the files it lists; os.rmdir
\* raises when blobs are left in the directory.
delete(mw, item_id) ==
    IF item_id \in DOMAIN mw.files
    THEN [m |-> DeleteBlob(mw, item_id), raised |-> NoError]
    ELSE IF item_id \in DOMAIN mw.folders
    THEN LET folder_info == mw.folders[item_id]
             gone == {folder_info.files[i] : i \in DOMAIN folder_info.files}
                        \cap DOMAIN mw.files
             paths == {mw.files[f].file_path : f \in gone}
             emptied == [mw EXCEPT
                            !.blobs = [p \in DOMAIN @ \ paths |-> @[p]],
                            !.files = [f \in DOMAIN @ \ gone |-> @[f]]]
             left == {p \in DOMAIN emptied.blobs : p.dir = folder_info.path}
         IN  IF folder_info.path \in mw.dirs /\ left # {}
             THEN [m |-> emptied, raised |-> <<"Directory not empty">>]
             ELSE [m |-> [emptied EXCEPT
                             !.dirs = @ \ {folder_info.path},
                             !.folders = Remove(@, item_id)],
                   raised |-> NoError]
    ELSE [m |-> mw, raised |-> NoError]

----------------------------------------------------------------------------
(* DatabaseManager (database.py).  A store is [files, audit_logs], two     *)
(* sequences in insertion order: the memory_files dict and the             *)
(* memory_audit_logs list of one DatabaseManager when mem is TRUE, the     *)
(* files and audit_logs collections of the database when it is FALSE.      *)

NewStore == [files |-> << >>, audit_logs |-> << >>]

\* limit=50 of get_user_files and get_audit_logs
DEFAULT_LIMIT == 50

\* s ordered by its keys descending, equal keys in the order of s
\* (list.sort(reverse=True) and sorted(reverse=True) are stable)
SortedDescending(s, keys) ==
    LET n == Len(s)
        Rank(i) == Cardinality({j \in 1..n :
                        \/ keys[j] > keys[i]
                        \/ keys[j] = keys[i] /\ j < i}) + 1
    IN  [r \in 1..n |-> s[CHOOSE i \in 1..n : Rank(i) = r]]

\* The orders in which find(...).sort(key, -1) may return the documents of
\* s: keys descending, documents of equal keys in any order
DatabaseOrders(s, keys) ==
    LET n == Len(s)
        orders == {p \in [1..n -> 1..n] :
                      /\ \A i, j \in 1..n : i # j => p[i] # p[j]
                      /\ \A i \in 1..n : i < n => keys[p[i]] >= keys[p[i + 1]]}
    IN  {[r \in 1..n |-> s[p[r]]] : p \in orders}

\* cursor.limit(limit): a limit of 0 is no limit
CursorLimit(s, limit) == IF limit = 0 THEN s ELSE Take(s, limit)

\* Positions of the records of a file_id, first inserted first
RecordsOf(store, file_id) == {i \in DOMAIN store.files : store.files[i].file_id = file_id}

\* store_file_metadata: a dict assignment in memory, insert_one otherwise
store_file_metadata(mem, store, file_id, user_id, filename, file_size, file_type, mega_file_id, now) ==
    LET file_data == [file_id |-> file_id, user_id |-> user_id,
                      filename |-> filename, file_size |-> file_size,
                      file_type |-> file_type, mega_file_id |-> mega_file_id,
                      upload_time |-> now, is_active |-> TRUE,
                      access_count |-> 0, deleted_at |-> 0]
        old == RecordsOf(store, file_id)
    IN  IF mem /\ old # {}
        THEN [store EXCEPT !.files[Min(old)] = file_data]
        ELSE [store EXCEPT !.files = Append(@, file_data)]

\* get_file_metadata: the position of the record returned, 0 for None.
\* memory_files.get(file_id) in memory, find_one with is_active otherwise.
get_file_metadata(mem, store, file_id) ==
    LET hits == IF mem THEN RecordsOf(store, file_id)
                ELSE {i \in RecordsOf(store, file_id) : store.files[i].is_active}
    IN  IF hits = {} THEN 0 ELSE Min(hits)

\* Mutant: the is_active test is missing
get_user_filesWithDeleted(mem, store, user_id, limit) ==
    LET user_files == Only(store.files,
                           {i \in DOMAIN store.files :
                               store.files[i].user_id = user_id})
        upload_time == [i \in DOMAIN user_files |-> user_files[i].upload_time]
    IN  Take(SortedDescending(user_files, upload_time), limit)

\* The active records of a user, as inserted
ActiveOf(store, user_id) ==
    Only(store.files, {i \in DOMAIN store.files :
                          /\ store.files[i].user_id = user_id
                          /\ store.files[i].is_active})

\* get_user_files(user_id, limit); the database's answer is the one with
\* the documents of equal upload_time as inserted
get_user_files(mem, store, user_id, limit) ==
    LET user_files == ActiveOf(store, user_id)
        upload_time == [i \in DOMAIN user_files |-> user_files[i].upload_time]
        sorted == SortedDescending(user_files, upload_time)
    IN  IF mem THEN Take(sorted, limit) ELSE CursorLimit(sorted, limit)

\* All that get_user_files(user_id, limit) may return
get_user_files_answers(mem, store, user_id, limit) ==
    LET user_files == ActiveOf(store, user_id)
        upload_time == [i \in DOMAIN user_files |-> user_files[i].upload_time]
    IN  IF mem THEN {get_user_files(mem, store, user_id, limit)}
        ELSE {CursorLimit(sorted, limit) :
                 sorted \in DatabaseOrders(user_files, upload_time)}

\* Mutant: the log keeps the latest entry only
log_activityKeepsLatest(mem, store, user_id, action, file_id, details, now) ==
    [store EXCEPT !.audit_logs =
        <<[user_id |-> user_id, action |-> action, file_id |-> file_id,
           details |-> details, timestamp |-> now]>>]

\* log_activity(user_id, action, file_id, details)
log_activity(mem, store, user_id, action, file_id, details, now) ==
    [store EXCEPT !.audit_logs =
        Append(@, [user_id |-> user_id, action |-> action, file_id |-> file_id,
                   details |-> details, timestamp |-> now])]

\* Mutant: the update is not restricted to the file_id
update_file_access_countOfAll(mem, store, file_id) ==
    [store EXCEPT !.files = [i \in DOMAIN @ |-> [@[i] EXCEPT !.access_count = @ + 1]]]

\* update_file_access_count(file_id)
update_file_access_count(mem, store, file_id) ==
    LET old == RecordsOf(store, file_id)
    IN  IF old = {} THEN store
        ELSE [store EXCEPT !.files[Min(old)].access_count = @ + 1]

\* Mutant: the flag is left as it was
MarkInactiveOfNone(mem, store, file_id, now) == store

\* Mutant: the record is removed
MarkInactiveRemoves(mem, store, file_id, now) ==
    [store EXCEPT !.files = Only(@, DOMAIN @ \ RecordsOf(store, file_id))]

\* The soft delete of delete_file: the is_active flag of the record
MarkInactive(mem, store, file_id, now) ==
    LET old == RecordsOf(store, file_id)
    IN  IF mem
        THEN [store EXCEPT !.files[Min(old)].is_active = FALSE]
        ELSE IF old = {} THEN store
        ELSE [store EXCEPT !.files[Min(old)].is_active = FALSE,
                           !.files[Min(old)].deleted_at = now]

\* The audit entries of a user, as appended
LogsOf(store, user_id) ==
    Only(store.audit_logs, {i \in DOMAIN store.audit_logs :
                               store.audit_logs[i].user_id = user_id})

\* Mutant: reverse=True is missing
get_audit_logsOldestFirst(mem, store, user_id, limit) ==
    Take(LogsOf(store, user_id), limit)

\* get_audit_logs(user_id, limit); the database's answer is the one with
\* the entries of equal timestamp as appended
get_audit_logs(mem, store, user_id, limit) ==
    LET user_logs == LogsOf(store, user_id)
        timestamp == [i \in DOMAIN user_logs |-> user_logs[i].timestamp]
        sorted == SortedDescending(user_logs, timestamp)
    IN  IF mem THEN Take(sorted, limit) ELSE CursorLimit(sorted, limit)

\* All that get_audit_logs(user_id, limit) may return
get_audit_logs_answers(mem, store, user_id, limit) ==
    LET user_logs == LogsOf(store, user_id)
        timestamp == [i \in DOMAIN user_logs |-> user_logs[i].timestamp]
    IN  IF mem THEN {get_audit_logs(mem, store, user_id, limit)}
        ELSE {CursorLimit(sorted, limit) :
                 sorted \in DatabaseOrders(user_logs, timestamp)}

----------------------------------------------------------------------------
(* SecureFileManager (file_manager.py).  A workflow is an operator from    *)
(* the MegaWrapper state mw, the store of its DatabaseManager, the uuids   *)
(* drawn (n) and the clock (now) to the new ones and the value returned.   *)
(* Each datetime.utcnow() call returns dt more than the one before.        *)

\* A workflow that returns a bare dict returns no status code
NoStatus == 0

\* The calls on the database that may raise (a lost connection, a refused
\* write); the in-memory fallback has nothing that fails.
Faults == {"store_file_metadata", "log_activity", "update_file_access_count", "update_one"}

\* No call fails
Healthy == {}

\* The call raises inside the try block around it
Fails(mem, failing, call) == ~mem /\ call \in failing

\* Mutant: the failure of the insert is sent nowhere
TryLogSilent(mem, failing, store, user_id, action, file_id, details, now) ==
    IF Fails(mem, failing, "log_activity")
    THEN [store |-> store, logged |-> << >>]
    ELSE [store |-> log_activity(mem, store, user_id, action, file_id, details, now),
          logged |-> << >>]

\* log_activity inside a workflow: the entry is stamped, and when the insert
\* raises the except clause keeps the failure from the caller and sends it
\* to logging.error
TryLog(mem, failing, store, user_id, action, file_id, details, now) ==
    IF Fails(mem, failing, "log_activity")
    THEN [store |-> store, logged |-> <<"Error logging activity">>]
    ELSE [store |-> log_activity(mem, store, user_id, action, file_id, details, now),
          logged |-> << >>]

\* What a workflow returns: the dict's keys and the status code beside it
Returned(success, status, error) ==
    [success |-> success, status |-> status, error |-> error,
     file_id |-> UnknownId, file_data |-> NoData, filename |-> << >>,
     files |-> << >>]

\* Mutant: the size is not compared with the maximum
validate_fileAnySize(file) ==
    LET name == file.filename
        file_ext == IF Len(name) >= 2 THEN Lower(name[Len(name)]) ELSE ""
        Invalid(error) == [error |-> error, size |-> 0, extension |-> ""]
    IN  IF name = << >> THEN Invalid(<<"No file provided">>)
        ELSE IF file_ext \notin ALLOWED_EXTENSIONS
        THEN Invalid(<<"File type not allowed">>)
        ELSE IF file.size = 0 THEN Invalid(<<"File is empty">>)
        ELSE [error |-> NoError, size |-> file.size, extension |-> file_ext]

\* validate_file(file)
validate_file(file) ==
    LET name == file.filename
        file_ext == IF Len(name) >= 2 THEN Lower(name[Len(name)]) ELSE ""
        Invalid(error) == [error |-> error, size |-> 0, extension |-> ""]
    IN  IF name = << >> THEN Invalid(<<"No file provided">>)
        ELSE IF file_ext \notin ALLOWED_EXTENSIONS
        THEN Invalid(<<"File type not allowed">>)
        ELSE IF file.size = 0 THEN Invalid(<<"File is empty">>)
        ELSE IF file.size > MaxFileSize THEN Invalid(<<"File too large">>)
        ELSE [error |-> NoError, size |-> file.size, extension |-> file_ext]

\* Mutant: the record is stored before the blob is put
upload_fileRecordFirst(mw, mem, store, n, now, dt, file, user_id, failing) ==
    LET validation == validate_file(file)
        file_id == n + 1
        folder == create_user_folder(mw, user_id, file_id)
        stored == store_file_metadata(mem, store, file_id, user_id, file.filename,
                                      validation.size, validation.extension,
                                      0, now + dt)
        sent == upload(folder.m, file, folder.ret,
                       [prefix |-> file_id, filename |-> file.filename],
                       folder.uuids)
        log == TryLog(mem, failing, stored, user_id, "file_upload", file_id,
                      file.filename, now + dt + dt)
    IN  IF validation.error # NoError
        THEN [m |-> mw, store |-> store, uuids |-> n, clock |-> now,
              mega_file_id |-> 0, logged |-> << >>,
              ret |-> Returned(FALSE, 400, validation.error)]
        ELSE IF Fails(mem, failing, "store_file_metadata")
        THEN [m |-> folder.m, store |-> store, uuids |-> folder.uuids,
              clock |-> now + dt, mega_file_id |-> 0,
              logged |-> <<"Error storing file metadata">>,
              ret |-> Returned(FALSE, 500, <<"Failed to store file metadata">>)]
        ELSE IF sent.raised # NoError
        THEN [m |-> sent.m, store |-> stored, uuids |-> sent.uuids,
              clock |-> now + dt, mega_file_id |-> 0, logged |-> << >>,
              ret |-> Returned(FALSE, 500, <<"Upload failed: ">> \o sent.raised)]
        ELSE [m |-> sent.m, store |-> log.store, uuids |-> sent.uuids,
              clock |-> now + dt + dt, mega_file_id |-> sent.ret,
              logged |-> log.logged,
              ret |-> [Returned(TRUE, 200, NoError) EXCEPT
                          !.file_id = file_id, !.filename = file.filename]]

\* upload_file(file, user_id), with the database calls in failing raising
upload_file(mw, mem, store, n, now, dt, file, user_id, failing) ==
    LET validation == validate_file(file)
        file_id == n + 1
        folder == create_user_folder(mw, user_id, file_id)
        sent == upload(folder.m, file, folder.ret,
                       [prefix |-> file_id, filename |-> file.filename],
                       folder.uuids)
        stored == store_file_metadata(mem, store, file_id, user_id, file.filename,
                                      validation.size, validation.extension,
                                      sent.ret, now + dt)
        log == TryLog(mem, failing, stored, user_id, "file_upload", file_id,
                      file.filename, now + dt + dt)
    IN  IF validation.error # NoError
        THEN [m |-> mw, store |-> store, uuids |-> n, clock |-> now,
              mega_file_id |-> 0, logged |-> << >>,
              ret |-> Returned(FALSE, 400, validation.error)]
        ELSE IF sent.raised # NoError
        THEN [m |-> sent.m, store |-> store, uuids |-> sent.uuids, clock |-> now,
              mega_file_id |-> 0, logged |-> << >>,
              ret |-> Returned(FALSE, 500, <<"Upload failed: ">> \o sent.raised)]
        ELSE IF Fails(mem, failing, "store_file_metadata")
        THEN [m |-> sent.m, store |-> store, uuids |-> sent.uuids,
              clock |-> now + dt, mega_file_id |-> sent.ret,
              logged |-> <<"Error storing file metadata">>,
              ret |-> Returned(FALSE, 500, <<"Failed to store file metadata">>)]
        ELSE [m |-> sent.m, store |-> log.store, uuids |-> sent.uuids,
              clock |-> now + dt + dt, mega_file_id |-> sent.ret,
              logged |-> log.logged,
              ret |-> [Returned(TRUE, 200, NoError) EXCEPT
                          !.file_id = file_id, !.filename = file.filename]]

\* retrieve_file(file_id, user_id), with the database calls in failing raising
retrieve_file(mw, mem, store, now, dt, file_id, user_id, failing) ==
    LET at == get_file_metadata(mem, store, file_id)
        file_info == store.files[at]
        denied == TryLog(mem, failing, store, user_id,
                         "unauthorized_access_attempt", file_id, << >>, now + dt)
        got == download(mw, file_info.mega_file_id, user_id)
        uncounted == Fails(mem, failing, "update_file_access_count")
        counted == IF uncounted THEN store
                   ELSE update_file_access_count(mem, store, file_id)
        log == TryLog(mem, failing, counted, user_id, "file_download", file_id,
                      file_info.filename, now + dt)
    IN  IF at = 0
        THEN [m |-> mw, store |-> store, clock |-> now, logged |-> << >>,
              ret |-> Returned(FALSE, 404, <<"File not found">>)]
        ELSE IF ~check_file_in_user_folder(mw, file_info.mega_file_id, user_id)
        THEN [m |-> mw, store |-> denied.store, clock |-> now + dt,
              logged |-> denied.logged,
              ret |-> Returned(FALSE, 403,
                               <<"Access denied - File not in user folder">>)]
        ELSE IF got.raised # NoError
        THEN [m |-> got.m, store |-> store, clock |-> now, logged |-> << >>,
              ret |-> Returned(FALSE, 500, <<"Retrieval failed: ">> \o got.raised)]
        ELSE [m |-> got.m, store |-> log.store, clock |-> now + dt,
              logged |-> (IF uncounted THEN <<"Error updating access count">>
                          ELSE << >>) \o log.logged,
              ret |-> [Returned(TRUE, NoStatus, NoError) EXCEPT
                          !.file_data = got.ret,
                          !.filename = file_info.filename]]

\* Mutant: the blob is removed before the owner of the record is compared
delete_fileRemovesFirst(mw, mem, store, now, dt, file_id, user_id, failing) ==
    LET at == get_file_metadata(mem, store, file_id)
        file_info == store.files[at]
        removed == delete(mw, file_info.mega_file_id)
        flipped_at == IF mem THEN now ELSE now + dt
        flipped == MarkInactive(mem, store, file_id, flipped_at)
        log == TryLog(mem, failing, flipped, user_id, "file_delete", file_id,
                      file_info.filename, flipped_at + dt)
    IN  IF at = 0
        THEN [m |-> mw, store |-> store, clock |-> now, logged |-> << >>,
              ret |-> Returned(FALSE, 404, <<"File not found">>)]
        ELSE IF removed.raised # NoError
        THEN [m |-> removed.m, store |-> store, clock |-> now, logged |-> << >>,
              ret |-> Returned(FALSE, 500, <<"Deletion failed: ">> \o removed.raised)]
        ELSE IF file_info.user_id # user_id
        THEN [m |-> removed.m, store |-> store, clock |-> now, logged |-> << >>,
              ret |-> Returned(FALSE, 403, <<"Access denied">>)]
        ELSE IF Fails(mem, failing, "update_one")
        THEN [m |-> removed.m, store |-> store, clock |-> flipped_at,
              logged |-> << >>,
              ret |-> Returned(FALSE, 500,
                               <<"Deletion failed: ">> \o <<"update_one">>)]
        ELSE [m |-> removed.m, store |-> log.store, clock |-> flipped_at + dt,
              logged |-> log.logged,
              ret |-> Returned(TRUE, NoStatus, NoError)]

\* delete_file(file_id, user_id), with the database calls in failing raising;
\* files.update_one is called outside any try block of the DatabaseManager
delete_file(mw, mem, store, now, dt, file_id, user_id, failing) ==
    LET at == get_file_metadata(mem, store, file_id)
        file_info == store.files[at]
        removed == delete(mw, file_info.mega_file_id)
        flipped_at == IF mem THEN now ELSE now + dt
        flipped == MarkInactive(mem, store, file_id, flipped_at)
        log == TryLog(mem, failing, flipped, user_id, "file_delete", file_id,
                      file_info.filename, flipped_at + dt)
    IN  IF at = 0
        THEN [m |-> mw, store |-> store, clock |-> now, logged |-> << >>,
              ret |-> Returned(FALSE, 404, <<"File not found">>)]
        ELSE IF file_info.user_id # user_id
        THEN [m |-> mw, store |-> store, clock |-> now, logged |-> << >>,
              ret |-> Returned(FALSE, 403, <<"Access denied">>)]
        ELSE IF removed.raised # NoError
        THEN [m |-> removed.m, store |-> store, clock |-> now, logged |-> << >>,
              ret |-> Returned(FALSE, 500, <<"Deletion failed: ">> \o removed.raised)]
        ELSE IF Fails(mem, failing, "update_one")
        THEN [m |-> removed.m, store |-> store, clock |-> flipped_at,
              logged |-> << >>,
              ret |-> Returned(FALSE, 500,
                               <<"Deletion failed: ">> \o <<"update_one">>)]
        ELSE [m |-> removed.m, store |-> log.store, clock |-> flipped_at + dt,
              logged |-> log.logged,
              ret |-> Returned(TRUE, NoStatus, NoError)]

\* datetime.isoformat()
isoformat(t) == <<"iso", t>>

\* get_user_files_list(user_id)
get_user_files_list(mem, store, user_id) ==
    LET files == get_user_files(mem, store, user_id, DEFAULT_LIMIT)
        file_list == [i \in DOMAIN files |->
                        [file_id |-> files[i].file_id,
                         filename |-> files[i].filename,
                         file_size |-> files[i].file_size,
                         file_type |-> files[i].file_type,
                         upload_time |-> isoformat(files[i].upload_time),
                         access_count |-> files[i].access_count]]
    IN  [Returned(TRUE, NoStatus, NoError) EXCEPT !.files = file_list]

----------------------------------------------------------------------------
(* The /audit route (app.py): it queries db_manager, the DatabaseManager   *)
(* app.py builds for itself, and rewrites the timestamps of the entries it *)
(* got: in memory these are the stored dicts themselves.                   *)

audit_route(mem, store, user_id) ==
    LET logs == get_audit_logs(mem, store, user_id, DEFAULT_LIMIT)
        Shown(log) == IF log.timestamp \in Int
                      THEN [log EXCEPT !.timestamp = isoformat(@)]
                      ELSE log
        Got(log) == \E j \in DOMAIN logs : logs[j] = log
    IN  [store |-> IF mem
                   THEN [store EXCEPT !.audit_logs =
                            [i \in DOMAIN @ |-> IF Got(@[i]) THEN Shown(@[i]) ELSE @[i]]]
                   ELSE store,
         ret |-> [Returned(TRUE, 200, NoError) EXCEPT
                     !.files = [j \in DOMAIN logs |-> Shown(logs[j])]]]

----------------------------------------------------------------------------
(* The state machine *)

\* What one utcnow() call may return beyond the call before
Ticks == {1}

\* The store behind file_manager.db and the one behind app.py's db_manager
FmStore == IF use_memory THEN fm_mem ELSE mongo

AppStore == IF use_memory THEN app_mem ELSE mongo

\* The file_ids a caller may name: those of the records, and an unknown one
KnownIds == {FmStore.files[i].file_id : i \in DOMAIN FmStore.files}

\* The reference scenario: alice uploads report.pdf and gets F, alice
\* retrieves F, bob retrieves F, alice deletes F, alice retrieves F.
ScenarioFile == [filename |-> <<"report", "pdf">>, size |-> 3, content |-> "pdf-stub"]

ScenarioOff == [step |-> 9, file_id |-> UnknownId]

ScenarioCalls ==
    <<<<"retrieve", "alice">>, <<"retrieve", "bob">>, <<"delete", "alice">>,
      <<"retrieve", "alice">>>>

AfterCall(op, user_id, file_id) ==
    IF /\ scen.step \in DOMAIN ScenarioCalls
       /\ ScenarioCalls[scen.step] = <<op, user_id>>
       /\ file_id = scen.file_id
    THEN [scen EXCEPT !.step = @ + 1]
    ELSE ScenarioOff

\* The request threads of the server (app.run serves each request in a
\* thread of its own), and the locals of the workflow a thread is in
Threads == {"t1", "t2"}

NoFile == [filename |-> << >>, size |-> 0, content |-> EmptyContent]

Idle ==
    [pc |-> "idle", op |-> "none", user_id |-> NoUser, file |-> NoFile,
     file_id |-> UnknownId, validation |-> validate_file(NoFile),
     user_folder |-> 0, mega_file_id |-> 0, filename |-> << >>,
     file_data |-> NoData, access_count |-> 0,
     ret |-> Returned(FALSE, NoStatus, NoError)]

Init ==
    /\ use_memory \in BOOLEAN
    /\ mongo = NewStore
    /\ fm_mem = NewStore
    /\ app_mem = NewStore
    /\ m = NewMega
    /\ nuuid = 0
    /\ clock = 0
    /\ last = [op |-> "none", user_id |-> NoUser, file_id |-> UnknownId,
               ret |-> Returned(FALSE, NoStatus, NoError), logged |-> << >>]
    /\ uploaded = EmptyMap
    /\ deleted = {}
    /\ scen = [step |-> 0, file_id |-> UnknownId]
    /\ threads = [t \in Threads |-> Idle]

OnScenario(s) == s.step # ScenarioOff.step

\* file_manager.db writes its own memory or the database
WriteFm(store) ==
    /\ Len(store.audit_logs) <= MaxAudit \/ OnScenario(scen')
    /\ IF use_memory
       THEN fm_mem' = store /\ UNCHANGED mongo
       ELSE mongo' = store /\ UNCHANGED fm_mem

\* POST /upload: file_manager.upload_file(file, user_id)
Upload(user_id, file, dt, failing) ==
    LET out == upload_file(m, use_memory, FmStore, nuuid, clock, dt, file,
                           user_id, failing)
    IN  /\ out.uuids <= MaxUuid
        /\ scen' = IF /\ scen.step = 0 /\ user_id = "alice"
                      /\ file = ScenarioFile /\ out.ret.success
                   THEN [step |-> 1, file_id |-> out.ret.file_id]
                   ELSE ScenarioOff
        /\ WriteFm(out.store)
        /\ m' = out.m
        /\ nuuid' = out.uuids
        /\ clock' = out.clock
        /\ last' = [op |-> "upload", user_id |-> user_id,
                    file_id |-> out.ret.file_id, ret |-> out.ret,
                    logged |-> out.logged]
        /\ uploaded' = IF out.ret.success
                       THEN Put(uploaded, out.ret.file_id,
                                [user_id |-> user_id, content |-> file.content,
                                 mega_file_id |-> out.mega_file_id])
                       ELSE uploaded
        /\ UNCHANGED <<threads, use_memory, app_mem, deleted>>

\* GET /retrieve/<file_id>: file_manager.retrieve_file(file_id, user_id)
Retrieve(user_id, file_id, dt, failing) ==
    LET out == retrieve_file(m, use_memory, FmStore, clock, dt, file_id, user_id,
                             failing)
    IN  /\ scen' = AfterCall("retrieve", user_id, file_id)
        /\ WriteFm(out.store)
        /\ m' = out.m
        /\ clock' = out.clock
        /\ last' = [op |-> "retrieve", user_id |-> user_id,
                    file_id |-> file_id, ret |-> out.ret, logged |-> out.logged]
        /\ UNCHANGED <<threads, use_memory, app_mem, nuuid, uploaded, deleted>>

\* DELETE /delete/<file_id>: file_manager.delete_file(file_id, user_id)
Delete(user_id, file_id, dt, failing) ==
    LET out == delete_file(m, use_memory, FmStore, clock, dt, file_id, user_id,
                           failing)
    IN  /\ scen' = AfterCall("delete", user_id, file_id)
        /\ WriteFm(out.store)
        /\ m' = out.m
        /\ clock' = out.clock
        /\ last' = [op |-> "delete", user_id |-> user_id,
                    file_id |-> file_id, ret |-> out.ret, logged |-> out.logged]
        /\ deleted' = IF out.ret.success THEN deleted \cup {file_id} ELSE deleted
        /\ UNCHANGED <<threads, use_memory, app_mem, nuuid, uploaded>>

\* GET /files: file_manager.get_user_files_list(user_id)
ListFiles(user_id) ==
    /\ last' = [op |-> "list", user_id |-> user_id, file_id |-> UnknownId,
                ret |-> get_user_files_list(use_memory, FmStore, user_id),
                logged |-> << >>]
    /\ scen' = ScenarioOff
    /\ UNCHANGED <<threads, use_memory, mongo, fm_mem, app_mem, m, nuuid, clock,
                   uploaded, deleted>>

\* GET /audit: db_manager.get_audit_logs(user_id) and the rewriting
Audit(user_id) ==
    LET out == audit_route(use_memory, AppStore, user_id)
    IN  /\ IF use_memory THEN app_mem' = out.store ELSE UNCHANGED app_mem
        /\ last' = [op |-> "audit", user_id |-> user_id, file_id |-> UnknownId,
                    ret |-> out.ret, logged |-> << >>]
        /\ scen' = IF scen.step = 5 THEN scen ELSE ScenarioOff
        /\ UNCHANGED <<threads, use_memory, mongo, fm_mem, m, nuuid, clock,
                       uploaded, deleted>>

\* MegaWrapper.download(file_id, requesting_user_id=...) called on the wrapper
Download(requesting_user_id, mega_file_id) ==
    LET out == download(m, mega_file_id, requesting_user_id)
    IN  /\ m.files[mega_file_id].access_count < MaxAccess
        /\ m' = out.m
        /\ last' = [op |-> "download", user_id |-> requesting_user_id,
                    file_id |-> mega_file_id,
                    ret |-> IF out.raised # NoError
                            THEN Returned(FALSE, NoStatus, out.raised)
                            ELSE [Returned(TRUE, NoStatus, NoError) EXCEPT
                                     !.file_data = out.ret],
                    logged |-> IF out.raised = <<"File decryption failed">>
                               THEN <<"Decryption failed">> ELSE << >>]
        /\ scen' = ScenarioOff
        /\ UNCHANGED <<threads, use_memory, mongo, fm_mem, app_mem, nuuid, clock,
                       uploaded, deleted>>

Next ==
    \/ \E user_id \in Users, file \in Files, dt \in Ticks :
          Upload(user_id, file, dt, Healthy)
    \/ \E user_id \in Users, file_id \in KnownIds \cup {UnknownId}, dt \in Ticks :
          Retrieve(user_id, file_id, dt, Healthy)
    \/ \E user_id \in Users, file_id \in KnownIds \cup {UnknownId}, dt \in Ticks :
          Delete(user_id, file_id, dt, Healthy)
    \/ \E user_id \in Users : ListFiles(user_id)
    \/ \E user_id \in Users : Audit(user_id)

Spec == Init /\ [][Next]_vars

----------------------------------------------------------------------------
(* upload_file step by step, for requests served at the same time.  A step *)
(* is one call on the shared MegaWrapper or DatabaseManager; a thread may  *)
(* be preempted between any two.  create_user_folder is two steps, its     *)
(* loop over self.folders and its insertion: no lock is held across them.  *)

Returns(t, ret) ==
    /\ threads' = [threads EXCEPT ![t].pc = "done", ![t].ret = ret]
    /\ last' = [op |-> "upload", user_id |-> threads[t].user_id,
                file_id |-> ret.file_id, ret |-> ret, logged |-> << >>]

\* upload_file, steps 1 and 2: validate_file, then uuid4()
BeginUpload(t, user_id, file) ==
    LET validation == validate_file(file)
    IN  /\ threads[t].pc = "idle"
        /\ IF validation.error # NoError
           THEN /\ threads' = [threads EXCEPT
                                  ![t] = [Idle EXCEPT
                                             !.pc = "done", !.op = "upload",
                                             !.user_id = user_id,
                                             !.file = file,
                                             !.ret = Returned(FALSE, 400,
                                                              validation.error)]]
                /\ last' = [op |-> "upload", user_id |-> user_id,
                            file_id |-> UnknownId,
                            ret |-> Returned(FALSE, 400, validation.error),
                            logged |-> << >>]
                /\ UNCHANGED nuuid
           ELSE /\ nuuid < MaxUuid
                /\ nuuid' = nuuid + 1
                /\ threads' = [threads EXCEPT
                                  ![t] = [Idle EXCEPT
                                             !.pc = "find_folder", !.op = "upload",
                                             !.user_id = user_id, !.file = file,
                                             !.validation = validation,
                                             !.file_id = nuuid + 1]]
                /\ UNCHANGED last
        /\ UNCHANGED <<use_memory, mongo, fm_mem, app_mem, m, clock, uploaded,
                       deleted, scen>>

\* create_user_folder: the loop over self.folders
FindFolder(t) ==
    LET found == FindUserFolder(m, threads[t].user_id)
    IN  /\ threads[t].pc = "find_folder"
        /\ threads' = [threads EXCEPT
                          ![t].pc = IF found # 0 THEN "put" ELSE "add_folder",
                          ![t].user_folder = found]
        /\ UNCHANGED <<use_memory, mongo, fm_mem, app_mem, m, nuuid, clock,
                       last, uploaded, deleted, scen>>

\* create_user_folder: uuid4(), mkdir(exist_ok=True) and the insertion
AddFolder(t) ==
    /\ threads[t].pc = "add_folder"
    /\ nuuid < MaxUuid
    /\ nuuid' = nuuid + 1
    /\ m' = AddUserFolder(m, threads[t].user_id, nuuid + 1)
    /\ threads' = [threads EXCEPT ![t].pc = "put", ![t].user_folder = nuuid + 1]
    /\ UNCHANGED <<use_memory, mongo, fm_mem, app_mem, clock, last, uploaded,
                   deleted, scen>>

\* upload_file, step 5: self.m.upload(file, dest=user_folder, ...)
PutBlob(t) ==
    LET self == threads[t]
        sent == upload(m, self.file, self.user_folder,
                       [prefix |-> self.file_id, filename |-> self.file.filename],
                       nuuid)
    IN  /\ self.pc = "put"
        /\ sent.uuids <= MaxUuid
        /\ nuuid' = sent.uuids
        /\ m' = sent.m
        /\ IF sent.raised # NoError
           THEN Returns(t, Returned(FALSE, 500, <<"Upload failed: ">> \o sent.raised))
           ELSE /\ threads' = [threads EXCEPT ![t].pc = "store",
                                              ![t].mega_file_id = sent.ret]
                /\ UNCHANGED last
        /\ UNCHANGED <<use_memory, mongo, fm_mem, app_mem, clock, uploaded,
                       deleted, scen>>

\* upload_file, step 6: self.db.store_file_metadata(...)
StoreMetadata(t, dt) ==
    LET self == threads[t]
    IN  /\ self.pc = "store"
        /\ scen' = ScenarioOff
        /\ WriteFm(store_file_metadata(use_memory, FmStore, self.file_id,
                                       self.user_id, self.file.filename,
                                       self.validation.size,
                                       self.validation.extension,
                                       self.mega_file_id, clock + dt))
        /\ clock' = clock + dt
        /\ threads' = [threads EXCEPT ![t].pc = "log"]
        /\ UNCHANGED <<use_memory, app_mem, m, nuuid, last, uploaded, deleted>>

\* upload_file: self.db.log_activity(user_id, 'file_upload', ...) and return
LogUpload(t, dt) ==
    LET self == threads[t]
    IN  /\ self.pc = "log"
        /\ scen' = ScenarioOff
        /\ WriteFm(log_activity(use_memory, FmStore, self.user_id, "file_upload",
                                self.file_id, self.file.filename, clock + dt))
        /\ clock' = clock + dt
        /\ Returns(t, [Returned(TRUE, 200, NoError) EXCEPT
                          !.file_id = self.file_id,
                          !.filename = self.file.filename])
        /\ uploaded' = Put(uploaded, self.file_id,
                           [user_id |-> self.user_id,
                            content |-> self.file.content,
                            mega_file_id |-> self.mega_file_id])
        /\ UNCHANGED <<use_memory, app_mem, m, nuuid, deleted>>

ConcurrentNext ==
    \/ \E t \in Threads, user_id \in Users, file \in Files :
          BeginUpload(t, user_id, file)
    \/ \E t \in Threads : FindFolder(t)
    \/ \E t \in Threads : AddFolder(t)
    \/ \E t \in Threads : PutBlob(t)
    \/ \E t \in Threads, dt \in Ticks : StoreMetadata(t, dt)
    \/ \E t \in Threads, dt \in Ticks : LogUpload(t, dt)

ConcurrentSpec == Init /\ [][ConcurrentNext]_vars

\* The files handed to the wrapper itself
DirectFiles == {file \in Files : file.filename \in {<<"report", "pdf">>, <<"blank", "pdf">>}}

\* m.upload(file, dest=dest, dest_filename=file.filename) called on the
\* wrapper; dest = 0 stands for dest=None
UploadTo(dest, file) ==
    LET out == upload(m, file, dest, [prefix |-> 0, filename |-> file.filename],
                      nuuid)
    IN  /\ out.uuids <= MaxUuid
        /\ m' = out.m
        /\ nuuid' = out.uuids
        /\ last' = [op |-> "upload_to",
                    user_id |-> IF dest \in DOMAIN m.folders
                                THEN m.folders[dest].user_id ELSE NoUser,
                    file_id |-> out.ret,
                    ret |-> IF out.raised # NoError
                            THEN Returned(FALSE, NoStatus, out.raised)
                            ELSE [Returned(TRUE, NoStatus, NoError) EXCEPT
                                     !.file_id = out.ret],
                    logged |-> << >>]
        /\ scen' = ScenarioOff
        /\ UNCHANGED <<threads, use_memory, mongo, fm_mem, app_mem, clock,
                       uploaded, deleted>>

\* m.get_user_files(user_id) called on the wrapper
UserFiles(user_id) ==
    /\ last' = [op |-> "user_files", user_id |-> user_id, file_id |-> UnknownId,
                ret |-> [Returned(TRUE, NoStatus, NoError) EXCEPT
                            !.files = MegaWrapper_get_user_files(m, user_id)],
                logged |-> << >>]
    /\ scen' = ScenarioOff
    /\ UNCHANGED <<threads, use_memory, mongo, fm_mem, app_mem, m, nuuid, clock,
                   uploaded, deleted>>

\* The wrapper used on its own, as test_mega_flowchart.py does, beside the
\* workflows that write the Object Store
WrapperNext ==
    \/ \E user_id \in Users, file \in Files, dt \in Ticks :
          Upload(user_id, file, dt, Healthy)
    \/ \E user_id \in Users, file_id \in KnownIds, dt \in Ticks :
          Delete(user_id, file_id, dt, Healthy)
    \/ \E user_id \in Users \cup {NoUser}, mega_file_id \in DOMAIN m.files :
          Download(user_id, mega_file_id)

WrapperSpec == Init /\ [][WrapperNext]_vars

\* The uploads of the workflow and of the wrapper's own callers on one
\* Object Store, and its listing by user
DirectNext ==
    \/ \E user_id \in Users, file \in Files, dt \in Ticks :
          Upload(user_id, file, dt, Healthy)
    \/ \E dest \in DOMAIN m.folders \cup {0}, file \in DirectFiles :
          UploadTo(dest, file)
    \/ \E user_id \in Users : UserFiles(user_id)

DirectSpec == Init /\ [][DirectNext]_vars

----------------------------------------------------------------------------
(* The workflows over a database whose calls may raise and a disk whose     *)
(* files may be changed behind the program                                  *)

\* What a stored blob reads as after it was changed on the disk: bytes that
\* are no token, or a token made with another key
Altered(blob) ==
    {[blob EXCEPT !.token = "altered"], [blob EXCEPT !.key = "another-key"]}

\* A file under ./mega_storage is overwritten by something else than the
\* program
Tamper(path, bytes) ==
    /\ CanDecrypt(encryption_key, m.blobs[path])
    /\ m' = [m EXCEPT !.blobs[path] = bytes]
    /\ scen' = ScenarioOff
    /\ UNCHANGED <<threads, use_memory, mongo, fm_mem, app_mem, nuuid, clock,
                   last, uploaded, deleted>>

\* What fails during one request: nothing, or one of the calls
FaultCases == {Healthy} \cup {{call} : call \in Faults}

\* The uploads of these runs pass the validation (the Spec runs cover the
\* ones that do not): a file the disk takes and one whose name it refuses
FaultFiles ==
    {file \in Files : validate_file(file).error = NoError /\ file.size < MaxFileSize}

\* The runs of a server that found its database at startup
FaultNext ==
    /\ ~use_memory
    /\ \/ \E user_id \in Users, file \in FaultFiles, dt \in Ticks,
             failing \in FaultCases :
             clock < MaxStamps /\ Upload(user_id, file, dt, failing)
       \/ \E user_id \in Users, file_id \in KnownIds \cup {UnknownId}, dt \in Ticks,
             failing \in FaultCases :
             clock < MaxStamps /\ Retrieve(user_id, file_id, dt, failing)
       \/ \E user_id \in Users, file_id \in KnownIds \cup {UnknownId}, dt \in Ticks,
             failing \in FaultCases :
             clock < MaxStamps /\ Delete(user_id, file_id, dt, failing)
       \/ \E path \in DOMAIN m.blobs : \E bytes \in Altered(m.blobs[path]) :
             Tamper(path, bytes)

FaultSpec == Init /\ [][FaultNext]_vars

----------------------------------------------------------------------------
(* The /retrieve and /delete routes (app.py).  Both run                     *)
(*     result, status_code = file_manager.<workflow>(file_id, user_id)      *)
(* on what the workflow returned: a (dict, status) tuple gives its two      *)
(* items, a bare dict is iterated and gives its keys.                       *)

\* The status line of a response whose status is a word and no number:
\* werkzeug sends "0 <word>"
StatusOfWord == 0

\* What a route answers: the status, the JSON body (an error text, or a
\* bare string) and the file sent; returned is what the workflow returned
Response(status, body, file_data, filename, returned) ==
    [status |-> status, body |-> body, file_data |-> file_data,
     filename |-> filename, returned |-> returned]

\* retrieve_file(file_id, user_id, username) of app.py.  The dict of a
\* retrieval that succeeded has four keys: the unpacking raises ValueError,
\* which the route's except clause answers.
retrieve_route(ret) ==
    IF ret.status = NoStatus
    THEN Response(500, <<"Retrieval failed">>, NoData, << >>, ret)
    ELSE IF ret.status # 200
    THEN Response(ret.status, ret.error, NoData, << >>, ret)
    ELSE Response(200, NoError, ret.file_data, ret.filename, ret)

\* delete_file(file_id, user_id, username) of app.py.  The dict of a
\* deletion that succeeded has the keys 'success' and 'message': result is
\* the string 'success' and status_code the string 'message'.
delete_route(ret) ==
    IF ret.status = NoStatus
    THEN Response(StatusOfWord, <<"success">>, NoData, << >>, ret)
    ELSE Response(ret.status, ret.error, NoData, << >>, ret)

\* GET /retrieve/<file_id>
RetrieveRoute(user_id, file_id, dt) ==
    LET out == retrieve_file(m, use_memory, FmStore, clock, dt, file_id, user_id,
                             Healthy)
    IN  /\ scen' = ScenarioOff
        /\ WriteFm(out.store)
        /\ m' = out.m
        /\ clock' = out.clock
        /\ last' = [op |-> "GET /retrieve", user_id |-> user_id,
                    file_id |-> file_id, ret |-> retrieve_route(out.ret),
                    logged |-> out.logged]
        /\ UNCHANGED <<threads, use_memory, app_mem, nuuid, uploaded, deleted>>

\* DELETE /delete/<file_id>
DeleteRoute(user_id, file_id, dt) ==
    LET out == delete_file(m, use_memory, FmStore, clock, dt, file_id, user_id,
                           Healthy)
    IN  /\ scen' = ScenarioOff
        /\ WriteFm(out.store)
        /\ m' = out.m
        /\ clock' = out.clock
        /\ last' = [op |-> "DELETE /delete", user_id |-> user_id,
                    file_id |-> file_id, ret |-> delete_route(out.ret),
                    logged |-> out.logged]
        /\ deleted' = IF out.ret.success THEN deleted \cup {file_id} ELSE deleted
        /\ UNCHANGED <<threads, use_memory, app_mem, nuuid, uploaded>>

\* The /upload route hands on what upload_file returned
RouteNext ==
    \/ \E user_id \in Users, file \in Files, dt \in Ticks :
          Upload(user_id, file, dt, Healthy)
    \/ \E user_id \in Users, file_id \in KnownIds \cup {UnknownId}, dt \in Ticks :
          RetrieveRoute(user_id, file_id, dt)
    \/ \E user_id \in Users, file_id \in KnownIds \cup {UnknownId}, dt \in Ticks :
          DeleteRoute(user_id, file_id, dt)

RouteSpec == Init /\ [][RouteNext]_vars

----------------------------------------------------------------------------
(* upload_file on every file, with an insert of the record that may fail    *)

\* What fails during one upload: nothing, or files.insert_one
UploadFaults == {Healthy, {"store_file_metadata"}}

UploadNext ==
    \/ \E user_id \in Users, file \in Files, dt \in Ticks, failing \in UploadFaults :
          Upload(user_id, file, dt, failing)
    \/ \E user_id \in Users : ListFiles(user_id)

UploadSpec == Init /\ [][UploadNext]_vars

----------------------------------------------------------------------------
(* The two queries of DatabaseManager with a limit, on the store that the   *)
(* workflows write, with clocks that may return the same stamp twice        *)

\* What one utcnow() call may return beyond the call before, when two
\* calls may fall into one tick of the clock
Stamps == {0, 1}

Limits == 1..MaxLimit

\* What a query with a limit returned
Asked(op, user_id, limit, answer) ==
    [op |-> op, user_id |-> user_id, file_id |-> UnknownId, logged |-> << >>,
     ret |-> [Returned(TRUE, NoStatus, NoError) EXCEPT
                 !.files = <<[limit |-> limit, answer |-> answer]>>]]

\* file_manager.db.get_user_files(user_id, limit)
GetUserFiles(user_id, limit) ==
    /\ \E answer \in get_user_files_answers(use_memory, FmStore, user_id, limit) :
          last' = Asked("get_user_files", user_id, limit, answer)
    /\ scen' = ScenarioOff
    /\ UNCHANGED <<threads, use_memory, mongo, fm_mem, app_mem, m, nuuid, clock,
                   uploaded, deleted>>

\* file_manager.db.get_audit_logs(user_id, limit)
GetAuditLogs(user_id, limit) ==
    /\ \E answer \in get_audit_logs_answers(use_memory, FmStore, user_id, limit) :
          last' = Asked("get_audit_logs", user_id, limit, answer)
    /\ scen' = ScenarioOff
    /\ UNCHANGED <<threads, use_memory, mongo, fm_mem, app_mem, m, nuuid, clock,
                   uploaded, deleted>>

QueryNext ==
    \/ \E user_id \in Users, file \in FaultFiles, dt \in Stamps :
          Upload(user_id, file, dt, Healthy)
    \/ \E user_id \in Users, file_id \in KnownIds, dt \in Ticks :
          Delete(user_id, file_id, dt, Healthy)
    \/ \E user_id \in Users, limit \in Limits : GetUserFiles(user_id, limit)
    \/ \E user_id \in Users, limit \in Limits : GetAuditLogs(user_id, limit)

QuerySpec == Init /\ [][QueryNext]_vars

----------------------------------------------------------------------------
(* Claims *)

Owner(file_id) == uploaded[file_id].user_id

\* The access_count of a file's record, 0 when it has none
AccessCount(store, file_id) ==
    IF RecordsOf(store, file_id) = {} THEN 0
    ELSE store.files[Min(RecordsOf(store, file_id))].access_count

\* C1: a retrieve_file by the uploader of a file that no delete_file has
\* removed returns exactly the content that was uploaded.
C1_RoundTrip ==
    (/\ last.op = "retrieve"
     /\ last.file_id \in DOMAIN uploaded
     /\ last.user_id = Owner(last.file_id)
     /\ last.file_id \notin deleted)
    => /\ last.ret.success
       /\ last.ret.file_data = uploaded[last.file_id].content

\* The uploader got the second of two files of different content back
C1_Witness ==
    /\ last.op = "retrieve"
    /\ last.ret.success
    /\ last.file_id \notin deleted
    /\ last.ret.file_data = uploaded[last.file_id].content
    /\ \E other \in DOMAIN uploaded :
          /\ other < last.file_id
          /\ uploaded[other].content # last.ret.file_data

\* C2: neither retrieve_file(file_id, v) nor MegaWrapper.download(...,
\* requesting_user_id=v) returns the content of a file uploaded by u to a
\* caller v other than u.
C2_TenantIsolation ==
    \A file_id \in DOMAIN uploaded :
        (/\ \/ last.op = "retrieve" /\ last.file_id = file_id
            \/ last.op = "download"
               /\ last.file_id = uploaded[file_id].mega_file_id
         /\ last.user_id # Owner(file_id))
        => last.ret.file_data = NoData

\* C3: a retrieve_file of another user's existing file returns the same
\* status and error as a retrieve_file of an unknown file_id.
C3_ExistenceNotLeaked ==
    (/\ last.op = "retrieve"
     /\ last.file_id \in DOMAIN uploaded \ deleted
     /\ last.user_id # Owner(last.file_id))
    => LET unknown == retrieve_file(m, use_memory, FmStore, clock, 1,
                                    UnknownId, last.user_id, Healthy).ret
       IN  /\ last.ret.status = unknown.status
           /\ last.ret.error = unknown.error

\* C4: once delete_file has succeeded for a file, every retrieve_file of it,
\* by anyone, is answered not-found or denied and carries no content.
C4_DeletedStaysGone ==
    (last.op = "retrieve" /\ last.file_id \in deleted)
    => /\ ~last.ret.success
       /\ last.ret.status \in {403, 404}
       /\ last.ret.file_data = NoData

\* The owner asked for a file of theirs after deleting it
C4_Witness ==
    /\ last.op = "retrieve"
    /\ last.file_id \in deleted
    /\ last.user_id = Owner(last.file_id)
    /\ last.ret.status \in {403, 404}

C6_ListingIsolated ==
    last.op = "list" =>
        \A i \in DOMAIN last.ret.files :
            /\ last.ret.files[i].file_id \in DOMAIN uploaded \ deleted
            /\ Owner(last.ret.files[i].file_id) = last.user_id

\* A user with a file listed while another file was deleted
C6_Witness ==
    /\ last.op = "list"
    /\ Len(last.ret.files) = 1
    /\ deleted # {}
    /\ \E file_id \in DOMAIN uploaded : Owner(file_id) # last.user_id

\* C7: every retrieve_file or delete_file refused because the caller is not
\* the owner has appended an access-denied entry under the caller's identity.
C7_DenialsAudited ==
    (/\ last.op \in {"retrieve", "delete"}
     /\ last.file_id \in DOMAIN uploaded \ deleted
     /\ last.user_id # Owner(last.file_id))
    => LET logs == FmStore.audit_logs
       IN  /\ logs # << >>
           /\ logs[Len(logs)].user_id = last.user_id
           /\ logs[Len(logs)].action = "unauthorized_access_attempt"
           /\ logs[Len(logs)].file_id = last.file_id

\* C8: after the reference scenario the audit query of alice shows the
\* upload, the download and the delete of F and nothing of bob's, and bob's
\* refused attempt on F is shown by the audit query of bob.
C8_ScenarioAudit ==
    (last.op = "audit" /\ last.user_id = "alice" /\ scen.step = 5)
    => LET mine == last.ret.files
           theirs == audit_route(use_memory, AppStore, "bob").ret.files
           Shows(logs, action, user_id) ==
               \E i \in DOMAIN logs :
                   /\ logs[i].action = action
                   /\ logs[i].file_id = scen.file_id
                   /\ logs[i].user_id = user_id
       IN  /\ Shows(mine, "file_upload", "alice")
           /\ Shows(mine, "file_download", "alice")
           /\ Shows(mine, "file_delete", "alice")
           /\ \A i \in DOMAIN mine : mine[i].user_id = "alice"
           /\ Shows(theirs, "unauthorized_access_attempt", "bob")

\* The extension of a filename as the spec normalizes it: what follows the
\* last dot, in lower case
NormalizedExtension(filename) ==
    IF Len(filename) >= 2 THEN Lower(filename[Len(filename)]) ELSE ""

\* The validation rules of the spec that a file breaks
Broken(file) ==
    {rule \in {<<"No file provided">>, <<"File type not allowed">>,
               <<"File is empty">>, <<"File too large">>} :
        \/ rule = <<"No file provided">> /\ file.filename = << >>
        \/ rule = <<"File type not allowed">>
           /\ NormalizedExtension(file.filename) \notin ALLOWED_EXTENSIONS
        \/ rule = <<"File is empty">> /\ file.size = 0
        \/ rule = <<"File too large">> /\ file.size > MAX_FILE_SIZE_MB * 1024 * 1024}

\* C10: an upload of a file that is empty, of an extension outside the
\* allow-list or above the maximum size is answered 400 with a reason the
\* file gives, and leaves the Object Store, the Metadata Store, the Audit Log
\* and the namespaces as they were.
C10_InvalidUploadRejected ==
    [][\A user_id \in Users, file \in Files, dt \in Ticks :
          (/\ Upload(user_id, file, dt, Healthy)
           /\ Broken(file) \ {<<"No file provided">>} # {})
          => /\ ~last'.ret.success
             /\ last'.ret.status = 400
             /\ last'.ret.error \in Broken(file)
             /\ UNCHANGED <<m, mongo, fm_mem, app_mem, nuuid>>
      ]_vars

\* An upload above the maximum size was refused while files were stored
C10_Witness ==
    /\ last.op = "upload"
    /\ last.ret.status = 400
    /\ last.ret.error = <<"File too large">>
    /\ KnownIds # {}
    /\ DOMAIN m.files # {}

\* The folder entries of the wrapper that belong to a user
NamespacesOf(user_id) ==
    {folder_id \in DOMAIN m.folders : m.folders[folder_id].user_id = user_id}

\* Two uploads of one user, of files the validation and the disk accept,
\* have both returned
BothUploaded ==
    /\ \A t \in Threads :
          /\ threads[t].pc = "done"
          /\ Broken(threads[t].file) = {}
          /\ \A i \in DOMAIN threads[t].file.filename :
                threads[t].file.filename[i] \notin WithSeparator
    /\ threads["t1"].user_id = threads["t2"].user_id

\* Both succeeded, with distinct file_ids that the user's listing shows
BothListed ==
    LET listing == get_user_files_list(use_memory, FmStore, threads["t1"].user_id).files
    IN  /\ \A t \in Threads :
              /\ threads[t].ret.success
              /\ \E i \in DOMAIN listing : listing[i].file_id = threads[t].ret.file_id
        /\ threads["t1"].ret.file_id # threads["t2"].ret.file_id

\* C9: two upload_file calls of the same new user, interleaved at any point,
\* both succeed with distinct file_ids, both files are in that user's
\* listing, and the user has exactly one namespace afterwards.
C9_ConcurrentFirstUploads ==
    BothUploaded =>
        /\ BothListed
        /\ Cardinality(NamespacesOf(threads["t1"].user_id)) = 1

\* The part of C9 the code keeps: both uploads succeed and are listed
C9_BothSucceed == BothUploaded => BothListed

\* The delete entries the audit log holds for a file
DeleteEntries(store, file_id) ==
    {i \in DOMAIN store.audit_logs :
        /\ store.audit_logs[i].action = "file_delete"
        /\ store.audit_logs[i].file_id = file_id}

\* C14: a delete_file succeeds only when the caller is the owner of the
\* record and the record is active, and a delete_file that is not granted,
\* as the owner's second delete of a file is, appends no delete entry.
C14_DeleteNeedsActiveOwner ==
    [][\A user_id \in Users, file_id \in KnownIds \cup {UnknownId}, dt \in Ticks :
          Delete(user_id, file_id, dt, Healthy) =>
              LET granted == /\ file_id \in DOMAIN uploaded \ deleted
                             /\ user_id = Owner(file_id)
              IN  /\ last'.ret.success => granted
                  /\ ~granted => DeleteEntries(FmStore', file_id)
                                    = DeleteEntries(FmStore, file_id)
      ]_vars

\* Every element of the sequence before is in the sequence after, at its
\* place and as it was
Extends(after, before) ==
    /\ Len(before) <= Len(after)
    /\ \A i \in DOMAIN before : after[i] = before[i]

\* C15: no step, an audit query through /audit included, removes, reorders
\* or changes an audit entry that was written.
C15_AuditAppendOnly ==
    [][/\ Extends(fm_mem'.audit_logs, fm_mem.audit_logs)
       /\ Extends(app_mem'.audit_logs, app_mem.audit_logs)
       /\ Extends(mongo'.audit_logs, mongo.audit_logs)
      ]_vars

\* An audit query returned entries, their timestamps rewritten for the
\* response
C15_Witness ==
    /\ last.op = "audit"
    /\ Len(last.ret.files) >= 2
    /\ \A i \in DOMAIN last.ret.files :
          \E j \in DOMAIN AppStore.audit_logs :
              last.ret.files[i].timestamp = isoformat(AppStore.audit_logs[j].timestamp)

\* C17: every file MegaWrapper.upload wrote under ./mega_storage holds a
\* token of the process's cipher for the content that was uploaded, never
\* the content itself.
C17_EncryptedAtRest ==
    \A path \in DOMAIN m.blobs :
        /\ m.blobs[path].token = "fernet"
        /\ CanDecrypt(encryption_key, m.blobs[path])
        /\ path.owner_prefix \in DOMAIN uploaded
        /\ Decrypt(encryption_key, m.blobs[path]) = uploaded[path.owner_prefix].content

\* Two blobs of different content are on the disk
C17_Witness ==
    \E p, q \in DOMAIN m.blobs :
        /\ p # q
        /\ m.blobs[p] # m.blobs[q]
        /\ m.blobs[p].token = "fernet"

----------------------------------------------------------------------------
(* retrieve_file and delete_file step by step, for requests served at the   *)
(* same time on files uploaded before.  A step is one call on the shared    *)
(* MegaWrapper or DatabaseManager.                                          *)

\* The workflow of thread t returns
Ends(t, ret) ==
    /\ threads' = [threads EXCEPT ![t].pc = "done", ![t].ret = ret]
    /\ last' = [op |-> threads[t].op, user_id |-> threads[t].user_id,
                file_id |-> threads[t].file_id, ret |-> ret, logged |-> << >>]

\* A workflow of thread t starts with self.db.get_file_metadata(file_id)
Begin(t, op, user_id, file_id, next) ==
    LET at == get_file_metadata(use_memory, FmStore, file_id)
        self == [Idle EXCEPT !.op = op, !.user_id = user_id, !.file_id = file_id]
    IN  /\ threads[t].pc = "idle"
        /\ IF at = 0
           THEN LET ret == Returned(FALSE, 404, <<"File not found">>)
                IN  /\ threads' = [threads EXCEPT
                                      ![t] = [self EXCEPT !.pc = "done", !.ret = ret]]
                    /\ last' = [op |-> op, user_id |-> user_id, file_id |-> file_id,
                                ret |-> ret, logged |-> << >>]
           ELSE /\ threads' = [threads EXCEPT
                                  ![t] = [self EXCEPT
                                             !.pc = next,
                                             !.user_folder = FmStore.files[at].user_id,
                                             !.mega_file_id = FmStore.files[at].mega_file_id,
                                             !.filename = FmStore.files[at].filename]]
                /\ UNCHANGED last
        /\ UNCHANGED <<use_memory, mongo, fm_mem, app_mem, m, nuuid, clock,
                       uploaded, deleted, scen>>

\* retrieve_file, step 1
BeginRetrieve(t, user_id, file_id) == Begin(t, "retrieve", user_id, file_id, "check")

\* retrieve_file, step 2: check_file_in_user_folder, and the denial
CheckFolder(t, dt) ==
    LET self == threads[t]
    IN  /\ self.pc = "check"
        /\ IF check_file_in_user_folder(m, self.mega_file_id, self.user_id)
           THEN /\ threads' = [threads EXCEPT ![t].pc = "download"]
                /\ UNCHANGED <<mongo, fm_mem, clock, last, scen>>
           ELSE /\ scen' = ScenarioOff
                /\ WriteFm(log_activity(use_memory, FmStore, self.user_id,
                                        "unauthorized_access_attempt",
                                        self.file_id, << >>, clock + dt))
                /\ clock' = clock + dt
                /\ Ends(t, Returned(FALSE, 403,
                                    <<"Access denied - File not in user folder">>))
        /\ UNCHANGED <<use_memory, app_mem, m, nuuid, uploaded, deleted>>

\* Mutant: an exception of download is swallowed and the workflow goes on
DownloadBlobOrNothing(t) ==
    LET got == download(m, threads[t].mega_file_id, threads[t].user_id)
    IN  /\ threads[t].pc = "download"
        /\ m' = got.m
        /\ threads' = [threads EXCEPT ![t].pc = "count", ![t].file_data = got.ret]
        /\ UNCHANGED <<use_memory, mongo, fm_mem, app_mem, nuuid, clock, uploaded,
                       deleted, scen, last>>

\* retrieve_file, step 3: self.m.download(mega_file_id, requesting_user_id)
DownloadBlob(t) ==
    LET self == threads[t]
        got == download(m, self.mega_file_id, self.user_id)
    IN  /\ self.pc = "download"
        /\ m' = got.m
        /\ IF got.raised # NoError
           THEN Ends(t, Returned(FALSE, 500, <<"Retrieval failed: ">> \o got.raised))
           ELSE /\ threads' = [threads EXCEPT ![t].pc = "count",
                                              ![t].file_data = got.ret]
                /\ UNCHANGED last
        /\ UNCHANGED <<use_memory, mongo, fm_mem, app_mem, nuuid, clock, uploaded,
                       deleted, scen>>

\* retrieve_file: self.db.update_file_access_count(file_id) on the
\* database, one update_one with $inc
CountAccess(t) ==
    /\ threads[t].pc = "count"
    /\ ~use_memory
    /\ scen' = ScenarioOff
    /\ WriteFm(update_file_access_count(use_memory, FmStore, threads[t].file_id))
    /\ threads' = [threads EXCEPT ![t].pc = "log_download"]
    /\ UNCHANGED <<use_memory, app_mem, m, nuuid, clock, last, uploaded, deleted>>

\* update_file_access_count in memory: `memory_files[file_id]['access_count']
\* += 1` reads the counter, adds 1 and stores the sum, and another thread
\* may run between the read and the store.  The read:
ReadCount(t) ==
    /\ threads[t].pc = "count"
    /\ use_memory
    /\ threads' = [threads EXCEPT
                       ![t].pc = "store_count",
                       ![t].access_count = AccessCount(fm_mem, threads[t].file_id)]
    /\ UNCHANGED <<use_memory, mongo, fm_mem, app_mem, m, nuuid, clock, last,
                   uploaded, deleted, scen>>

\* The store of the sum
StoreCount(t) ==
    LET at == Min(RecordsOf(fm_mem, threads[t].file_id))
    IN  /\ threads[t].pc = "store_count"
        /\ scen' = ScenarioOff
        /\ WriteFm([fm_mem EXCEPT
                       !.files[at].access_count = threads[t].access_count + 1])
        /\ threads' = [threads EXCEPT ![t].pc = "log_download"]
        /\ UNCHANGED <<use_memory, app_mem, m, nuuid, clock, last, uploaded,
                       deleted>>

\* retrieve_file: self.db.log_activity(user_id, 'file_download', ...), return
LogDownload(t, dt) ==
    LET self == threads[t]
    IN  /\ self.pc = "log_download"
        /\ scen' = ScenarioOff
        /\ WriteFm(log_activity(use_memory, FmStore, self.user_id, "file_download",
                                self.file_id, self.filename, clock + dt))
        /\ clock' = clock + dt
        /\ Ends(t, [Returned(TRUE, NoStatus, NoError) EXCEPT
                       !.file_data = self.file_data, !.filename = self.filename])
        /\ UNCHANGED <<use_memory, app_mem, m, nuuid, uploaded, deleted>>

\* delete_file: get_file_metadata
BeginDelete(t, user_id, file_id) == Begin(t, "delete", user_id, file_id, "owner")

\* delete_file: file_info['user_id'] != user_id
CheckOwner(t) ==
    LET self == threads[t]
    IN  /\ self.pc = "owner"
        /\ IF self.user_folder # self.user_id
           THEN Ends(t, Returned(FALSE, 403, <<"Access denied">>))
           ELSE /\ threads' = [threads EXCEPT ![t].pc = "remove"]
                /\ UNCHANGED last
        /\ UNCHANGED <<use_memory, mongo, fm_mem, app_mem, m, nuuid, clock,
                       uploaded, deleted, scen>>

\* delete_file: self.m.delete(mega_file_id)
RemoveBlob(t) ==
    LET removed == delete(m, threads[t].mega_file_id)
    IN  /\ threads[t].pc = "remove"
        /\ m' = removed.m
        /\ IF removed.raised # NoError
           THEN Ends(t, Returned(FALSE, 500, <<"Deletion failed: ">> \o removed.raised))
           ELSE /\ threads' = [threads EXCEPT ![t].pc = "flip"]
                /\ UNCHANGED last
        /\ UNCHANGED <<use_memory, mongo, fm_mem, app_mem, nuuid, clock, uploaded,
                       deleted, scen>>

\* delete_file: the soft delete
FlipActive(t, dt) ==
    LET flipped_at == IF use_memory THEN clock ELSE clock + dt
    IN  /\ threads[t].pc = "flip"
        /\ scen' = ScenarioOff
        /\ WriteFm(MarkInactive(use_memory, FmStore, threads[t].file_id, flipped_at))
        /\ clock' = flipped_at
        /\ threads' = [threads EXCEPT ![t].pc = "log_delete"]
        /\ UNCHANGED <<use_memory, app_mem, m, nuuid, last, uploaded, deleted>>

\* delete_file: self.db.log_activity(user_id, 'file_delete', ...), return
LogDelete(t, dt) ==
    LET self == threads[t]
    IN  /\ self.pc = "log_delete"
        /\ scen' = ScenarioOff
        /\ WriteFm(log_activity(use_memory, FmStore, self.user_id, "file_delete",
                                self.file_id, self.filename, clock + dt))
        /\ clock' = clock + dt
        /\ Ends(t, Returned(TRUE, NoStatus, NoError))
        /\ deleted' = deleted \cup {self.file_id}
        /\ UNCHANGED <<use_memory, app_mem, m, nuuid, uploaded>>

RaceNext ==
    \/ \E user_id \in Users, file \in FaultFiles, dt \in Ticks :
          /\ \A t \in Threads : threads[t].pc = "idle"
          /\ Upload(user_id, file, dt, Healthy)
    \/ \E t \in Threads, user_id \in Users, file_id \in KnownIds \cup {UnknownId} :
          BeginRetrieve(t, user_id, file_id)
    \/ \E t \in Threads, dt \in Ticks : CheckFolder(t, dt)
    \/ \E t \in Threads : DownloadBlob(t)
    \/ \E t \in Threads : CountAccess(t)
    \/ \E t \in Threads : ReadCount(t)
    \/ \E t \in Threads : StoreCount(t)
    \/ \E t \in Threads, dt \in Ticks : LogDownload(t, dt)
    \/ \E t \in Threads, user_id \in Users, file_id \in KnownIds \cup {UnknownId} :
          BeginDelete(t, user_id, file_id)
    \/ \E t \in Threads : CheckOwner(t)
    \/ \E t \in Threads : RemoveBlob(t)
    \/ \E t \in Threads, dt \in Ticks : FlipActive(t, dt)
    \/ \E t \in Threads, dt \in Ticks : LogDelete(t, dt)

RaceSpec == Init /\ [][RaceNext]_vars

----------------------------------------------------------------------------
(* The two backends of DatabaseManager side by side: every call is made on  *)
(* the in-memory fallback (fm_mem) and on the database (mongo), with the    *)
(* same arguments, and last keeps what each returned.                       *)

\* What a query returned from each backend
Answers(op, user_id, file_id, memory, database) ==
    [op |-> op, user_id |-> user_id, file_id |-> file_id, logged |-> << >>,
     ret |-> [Returned(TRUE, NoStatus, NoError) EXCEPT
                 !.files = <<[backend |-> "memory", answer |-> memory],
                             [backend |-> "database", answer |-> database]>>]]

\* The document get_file_metadata returns, << >> for None
Found(mem, store, file_id) ==
    LET at == get_file_metadata(mem, store, file_id)
    IN  IF at = 0 THEN << >> ELSE <<store.files[at]>>

\* store_file_metadata(file_id, ...) with a fresh file_id
StoreBoth(user_id, dt) ==
    /\ nuuid < MaxUuid
    /\ clock < MaxStamps
    /\ nuuid' = nuuid + 1
    /\ clock' = clock + dt
    /\ fm_mem' = store_file_metadata(TRUE, fm_mem, nuuid + 1, user_id,
                                     <<"report", "pdf">>, 3, "pdf", 0, clock + dt)
    /\ mongo' = store_file_metadata(FALSE, mongo, nuuid + 1, user_id,
                                    <<"report", "pdf">>, 3, "pdf", 0, clock + dt)
    /\ UNCHANGED <<threads, use_memory, app_mem, m, last, uploaded, deleted, scen>>

\* store_file_metadata(file_id, ...) with the file_id of a stored record;
\* each backend returns True
StoreAgainBoth(file_id, user_id, dt) ==
    /\ clock < MaxStamps
    /\ clock' = clock + dt
    /\ fm_mem' = store_file_metadata(TRUE, fm_mem, file_id, user_id,
                                     <<"notes", "txt">>, 2, "txt", 0, clock + dt)
    /\ mongo' = store_file_metadata(FALSE, mongo, file_id, user_id,
                                    <<"notes", "txt">>, 2, "txt", 0, clock + dt)
    /\ last' = Answers("store", user_id, file_id, TRUE, TRUE)
    /\ UNCHANGED <<threads, use_memory, app_mem, m, nuuid, uploaded, deleted, scen>>

\* get_file_metadata(file_id)
GetBoth(file_id) ==
    /\ last' = Answers("get", NoUser, file_id, Found(TRUE, fm_mem, file_id),
                       Found(FALSE, mongo, file_id))
    /\ UNCHANGED <<threads, use_memory, mongo, fm_mem, app_mem, m, nuuid, clock,
                   uploaded, deleted, scen>>

\* get_user_files(user_id)
ListBoth(user_id) ==
    /\ last' = Answers("list", user_id, UnknownId,
                       get_user_files(TRUE, fm_mem, user_id, DEFAULT_LIMIT),
                       get_user_files(FALSE, mongo, user_id, DEFAULT_LIMIT))
    /\ UNCHANGED <<threads, use_memory, mongo, fm_mem, app_mem, m, nuuid, clock,
                   uploaded, deleted, scen>>

\* The soft delete of delete_file on a stored file
SoftDeleteBoth(file_id, dt) ==
    /\ clock < MaxStamps
    /\ clock' = clock + dt
    /\ fm_mem' = MarkInactive(TRUE, fm_mem, file_id, clock + dt)
    /\ mongo' = MarkInactive(FALSE, mongo, file_id, clock + dt)
    /\ deleted' = deleted \cup {file_id}
    /\ UNCHANGED <<threads, use_memory, app_mem, m, nuuid, last, uploaded, scen>>

\* update_file_access_count(file_id)
IncrementBoth(file_id) ==
    /\ \A i \in RecordsOf(fm_mem, file_id) : fm_mem.files[i].access_count < MaxAccess
    /\ fm_mem' = update_file_access_count(TRUE, fm_mem, file_id)
    /\ mongo' = update_file_access_count(FALSE, mongo, file_id)
    /\ UNCHANGED <<threads, use_memory, app_mem, m, nuuid, clock, last, uploaded,
                   deleted, scen>>

\* The file_ids stored so far
StoredIds == {fm_mem.files[i].file_id : i \in DOMAIN fm_mem.files}

BackendNext ==
    \/ \E user_id \in Users, dt \in Ticks : StoreBoth(user_id, dt)
    \/ \E file_id \in StoredIds, user_id \in Users, dt \in Ticks :
          StoreAgainBoth(file_id, user_id, dt)
    \/ \E file_id \in StoredIds \cup {UnknownId} : GetBoth(file_id)
    \/ \E user_id \in Users : ListBoth(user_id)
    \/ \E file_id \in StoredIds, dt \in Ticks : SoftDeleteBoth(file_id, dt)
    \/ \E file_id \in StoredIds \cup {UnknownId} : IncrementBoth(file_id)

BackendSpec == Init /\ [][BackendNext]_vars

----------------------------------------------------------------------------
(* Claims on failing backends *)

\* The blobs of the Object Store that no record of the Metadata Store names
OrphanBlobs ==
    {f \in DOMAIN m.files :
        \A i \in DOMAIN FmStore.files : FmStore.files[i].mega_file_id # f}

\* C11: when the metadata create step of an upload fails after the blob was
\* written, the upload reports the failure and no orphaned blob remains when
\* it has returned.
C11_NoOrphanBlob ==
    (last.op = "upload" /\ last.logged = <<"Error storing file metadata">>)
    => /\ ~last.ret.success
       /\ OrphanBlobs = {}

\* C12: at every point of the upload workflows, finished, failed or left
\* at any step, every record of the Metadata Store names a blob that is
\* written in the Object Store.
C12_BlobBeforeRecord ==
    \A i \in DOMAIN FmStore.files :
        LET mega_file_id == FmStore.files[i].mega_file_id
        IN  /\ mega_file_id \in DOMAIN m.files
            /\ m.files[mega_file_id].file_path \in DOMAIN m.blobs
            /\ CanDecrypt(encryption_key, m.blobs[m.files[mega_file_id].file_path])

\* One upload has stored its record and not returned, another has failed at
\* the blob write, leaving no record
C12_Witness ==
    /\ threads["t1"].pc = "log"
    /\ threads["t2"].pc = "done"
    /\ threads["t2"].ret.status = 500
    /\ Len(FmStore.files) = 1

\* The record of the file is active and its blob is gone
Dangling(file_id) ==
    /\ file_id \in DOMAIN uploaded
    /\ \E i \in RecordsOf(FmStore, file_id) : FmStore.files[i].is_active
    /\ uploaded[file_id].mega_file_id \notin DOMAIN m.files

AccessDenials == {<<"Access denied">>, <<"Access denied - File not in user folder">>}

\* C13: when a delete stopped between the blob removal and the flag flip,
\* the next retrieve_file by the owner returns an error that is no access
\* denial, and no content.
C13_DanglingRecordReported ==
    (/\ last.op = "retrieve"
     /\ Dangling(last.file_id)
     /\ last.user_id = Owner(last.file_id))
    => /\ ~last.ret.success
       /\ last.ret.file_data = NoData
       /\ last.ret.status # 403
       /\ last.ret.error \notin AccessDenials

\* A workflow whose audit append failed ended as the one whose append
\* succeeds (well) ends, but for the entry, and logging.error was told
SameButLogged(well) ==
    /\ last'.ret = well.ret
    /\ m' = well.m
    /\ FmStore'.files = well.store.files
    /\ well.store.audit_logs # FmStore.audit_logs
       => /\ FmStore'.audit_logs = FmStore.audit_logs
          /\ last'.logged = <<"Error logging activity">>

\* C16: when the audit append fails during upload_file, retrieve_file or
\* delete_file, the workflow returns what it returns when the append
\* succeeds, with the same effects on the stores, and the failure is sent
\* to logging.error.
C16_AuditFailureDegraded ==
    [][\A user_id \in {last'.user_id} \cap Users, dt \in Ticks :
          /\ last'.op = "upload" =>
                \A file \in FaultFiles :
                    Upload(user_id, file, dt, {"log_activity"}) =>
                        SameButLogged(upload_file(m, use_memory, FmStore, nuuid,
                                                  clock, dt, file, user_id, Healthy))
          /\ last'.op = "retrieve" =>
                (Retrieve(user_id, last'.file_id, dt, {"log_activity"}) =>
                    SameButLogged(retrieve_file(m, use_memory, FmStore, clock, dt,
                                                last'.file_id, user_id, Healthy)))
          /\ last'.op = "delete" =>
                (Delete(user_id, last'.file_id, dt, {"log_activity"}) =>
                    SameButLogged(delete_file(m, use_memory, FmStore, clock, dt,
                                              last'.file_id, user_id, Healthy)))
      ]_vars

\* The owner got the content of a file while the audit append failed
C16_Witness ==
    /\ last.op = "retrieve"
    /\ last.ret.success
    /\ last.ret.file_data = uploaded[last.file_id].content
    /\ last.logged = <<"Error logging activity">>
    /\ \A i \in DOMAIN FmStore.audit_logs :
          FmStore.audit_logs[i].action # "file_download"

\* The blob of an uploaded file is on the disk and is no longer what upload
\* wrote
Corrupt(file_id) ==
    /\ file_id \in DOMAIN uploaded
    /\ uploaded[file_id].mega_file_id \in DOMAIN m.files
    /\ LET path == m.files[uploaded[file_id].mega_file_id].file_path
       IN  /\ path \in DOMAIN m.blobs
           /\ m.blobs[path] \in Altered(Encrypt(encryption_key,
                                                 uploaded[file_id].content))

\* C18: while the stored blob of a file is altered or is no token of the
\* process key, MegaWrapper.download of it raises and changes nothing, and
\* a retrieve_file of it by its owner fails with an error and no content,
\* changes no access_count and appends no audit entry.
C18_CorruptBlobFails ==
    [][\A file_id \in DOMAIN uploaded :
          Corrupt(file_id) =>
              /\ LET got == download(m, uploaded[file_id].mega_file_id, Owner(file_id))
                 IN  got.raised # NoError /\ got.ret = NoData /\ got.m = m
              /\ \A dt \in Ticks, failing \in FaultCases :
                    Retrieve(Owner(file_id), file_id, dt, failing) =>
                        /\ ~last'.ret.success
                        /\ last'.ret.status = 500
                        /\ last'.ret.file_data = NoData
                        /\ UNCHANGED <<m, mongo, fm_mem, app_mem>>
      ]_vars

\* The owner asked for a file once read and since altered on the disk
C18_Witness ==
    /\ last.op = "retrieve"
    /\ Corrupt(last.file_id)
    /\ last.user_id = Owner(last.file_id)
    /\ last.ret.error = <<"Retrieval failed: ", "File decryption failed">>
    /\ AccessCount(FmStore, last.file_id) = 1

----------------------------------------------------------------------------
(* Claims on requests served at the same time *)

\* Thread t has returned from a retrieve_file of a file by its owner while
\* the other thread was in, or through, a delete_file of it by the owner
RacedRetrieve(t, other) ==
    /\ threads[t].pc = "done"
    /\ threads[t].op = "retrieve"
    /\ threads[t].file_id \in DOMAIN uploaded
    /\ threads[t].user_id = Owner(threads[t].file_id)
    /\ threads[other].op = "delete"
    /\ threads[other].file_id = threads[t].file_id
    /\ threads[other].user_id = threads[t].user_id

\* C19: a retrieve_file that interleaves with a delete_file of the same
\* file by its owner ends with the whole content that was uploaded or with
\* a not-found or denied answer, and in no other failure.
C19_RetrieveDeleteRace ==
    \A t, other \in Threads :
        RacedRetrieve(t, other) =>
            LET ret == threads[t].ret
            IN  \/ /\ ret.success
                   /\ ret.file_data = uploaded[threads[t].file_id].content
                \/ /\ ~ret.success
                   /\ ret.status \in {403, 404}
                   /\ ret.file_data = NoData

----------------------------------------------------------------------------
(* Claims on the two backends *)

\* C20: after the same calls, get_file_metadata and get_user_files return
\* the same from the in-memory fallback and from the database, for a
\* soft-deleted file too, and in the same order.
C20_BackendsAgree ==
    last.op \in {"get", "list"}
    => last.ret.files[1].answer = last.ret.files[2].answer

\* C21: store_file_metadata called with a file_id that already has a record
\* fails and leaves the records of the backend as they were: the record is
\* neither overwritten nor stored a second time.
C21_DuplicateIdRejected ==
    [][\A file_id \in StoredIds, user_id \in Users, dt \in Ticks :
          StoreAgainBoth(file_id, user_id, dt)
          => /\ fm_mem'.files = fm_mem.files
             /\ mongo'.files = mongo.files
             /\ \A i \in 1..2 : last'.ret.files[i].answer # TRUE]_vars

----------------------------------------------------------------------------
(* Claims on the life of a record *)

\* What store_file_metadata wrote of a record, its counter and flag apart
Written(record) ==
    [file_id |-> record.file_id, user_id |-> record.user_id,
     filename |-> record.filename, file_size |-> record.file_size,
     file_type |-> record.file_type, mega_file_id |-> record.mega_file_id,
     upload_time |-> record.upload_time]

\* Every record of before is a record of after, at its place, as it was
\* written, its counter no smaller and its flag not set again
RecordsKept(after, before) ==
    /\ Len(before.files) <= Len(after.files)
    /\ \A i \in DOMAIN before.files :
          /\ Written(after.files[i]) = Written(before.files[i])
          /\ after.files[i].access_count >= before.files[i].access_count
          /\ after.files[i].is_active => before.files[i].is_active

\* No record of before has another deleted_at in after
StampsKept(after, before) ==
    \A i \in DOMAIN before.files \cap DOMAIN after.files :
        after.files[i].deleted_at = before.files[i].deleted_at

\* C22 as stated: no upload, retrieve, delete or list removes a record, and
\* access_count and the active flag are the only fields of a record that
\* ever change; the flag never returns from false to true.
C22_OnlyCountAndFlagChange ==
    [][/\ RecordsKept(fm_mem', fm_mem) /\ StampsKept(fm_mem', fm_mem)
       /\ RecordsKept(mongo', mongo) /\ StampsKept(mongo', mongo)]_vars

\* C22, amended: no upload, retrieve, delete or list removes a record;
\* file_id, user_id, filename, size, type, storage reference and upload
\* time stay as written, access_count never decreases and the active flag
\* never returns from false to true (the database backend also stamps
\* deleted_at when it clears the flag).
C22_RecordsKept ==
    [][RecordsKept(fm_mem', fm_mem) /\ RecordsKept(mongo', mongo)]_vars

\* A file was retrieved and then deleted, and its record is kept
C22_Witness ==
    /\ last.op = "delete"
    /\ last.ret.success
    /\ \E i \in RecordsOf(FmStore, last.file_id) :
          /\ FmStore.files[i].access_count > 0
          /\ ~FmStore.files[i].is_active

----------------------------------------------------------------------------
(* Claims on the Object Store *)

\* C23: after any sequence of uploads served one after the other a user has
\* at most one folder, and create_user_folder called for a user who has a
\* folder returns that folder's id and changes nothing.
C23_OneNamespace ==
    \A user_id \in Users :
        /\ Cardinality(NamespacesOf(user_id)) <= 1
        /\ \A folder_id \in NamespacesOf(user_id) :
              create_user_folder(m, user_id, nuuid)
                  = [m |-> m, ret |-> folder_id, uuids |-> nuuid]

\* A user's second upload has returned: both files are in one folder
C23_Witness ==
    /\ last.op = "upload"
    /\ last.ret.success
    /\ \E folder_id \in NamespacesOf(last.user_id) :
          Len(m.folders[folder_id].files) >= 2

\* C24: MegaWrapper.delete of an id that names no file and no folder raises
\* nothing and leaves the wrapper as it is, so that delete of a stored
\* file applied twice leaves what delete applied once leaves.
C24_DeleteIdempotent ==
    /\ \A item_id \in 0..nuuid :
          item_id \notin DOMAIN m.files \cup DOMAIN m.folders
          => delete(m, item_id) = [m |-> m, raised |-> NoError]
    /\ \A item_id \in DOMAIN m.files :
          delete(delete(m, item_id).m, item_id) = delete(m, item_id)

\* With the in-memory backend the owner's second delete_file of a file has
\* called MegaWrapper.delete on a reference that the first had removed
C24_Witness ==
    /\ use_memory
    /\ last.op = "delete"
    /\ last.ret.success
    /\ Cardinality(DeleteEntries(FmStore, last.file_id)) = 2
    /\ uploaded[last.file_id].mega_file_id \notin DOMAIN m.files

\* C25: every blob upload_file stored for a user lies in the directory of
\* that user's folder and is tagged with that user's id; no folder lists a
\* blob tagged with another user than the folder's, and
\* MegaWrapper.get_user_files(u) returns blobs tagged with u only.
C25_Namespaced ==
    /\ \A file_id \in DOMAIN uploaded :
          LET blob == uploaded[file_id].mega_file_id
          IN  blob \in DOMAIN m.files
              => /\ m.files[blob].user_id = Owner(file_id)
                 /\ m.files[blob].file_path.dir
                        = StorageRoot \o <<FolderName(Owner(file_id))>>
                 /\ m.files[blob].file_path \in DOMAIN m.blobs
    /\ \A folder_id \in DOMAIN m.folders :
          \A i \in DOMAIN m.folders[folder_id].files :
              LET blob == m.folders[folder_id].files[i]
              IN  blob \in DOMAIN m.files
                  => m.files[blob].user_id = m.folders[folder_id].user_id
    /\ last.op = "user_files"
       => \A i \in DOMAIN last.ret.files :
              m.files[last.ret.files[i].file_id].user_id = last.user_id

\* get_user_files returned a user's blob while the wrapper holds a blob
\* that upload_file stored for another user
C25_Witness ==
    /\ last.op = "user_files"
    /\ last.ret.files # << >>
    /\ \E file_id \in DOMAIN uploaded :
          /\ Owner(file_id) # last.user_id
          /\ uploaded[file_id].mega_file_id \in DOMAIN m.files

----------------------------------------------------------------------------
(* Claims on the queries with a limit *)

\* The one answer of the query that last keeps, and its limit
Answer == last.ret.files[1].answer

Limit == last.ret.files[1].limit

\* answer lists distinct elements of all
Among(answer, all) ==
    \E p \in [DOMAIN answer -> DOMAIN all] :
        /\ \A i, j \in DOMAIN answer : i # j => p[i] # p[j]
        /\ \A i \in DOMAIN answer : answer[i] = all[p[i]]

\* C26: get_audit_logs(user_id, limit) returns entries of that user only,
\* the newest first, and min(limit, the number of the user's entries) of
\* them, none of which is older than an entry left out.
C26_AuditQuery ==
    last.op = "get_audit_logs"
    => LET mine == LogsOf(FmStore, last.user_id)
       IN  /\ \A i \in DOMAIN Answer : Answer[i].user_id = last.user_id
           /\ Among(Answer, mine)
           /\ Len(Answer) = IF Len(mine) < Limit THEN Len(mine) ELSE Limit
           /\ \A i, j \in DOMAIN Answer :
                 i < j => Answer[i].timestamp >= Answer[j].timestamp
           /\ \A i \in DOMAIN mine, j \in DOMAIN Answer :
                 mine[i].timestamp > Answer[j].timestamp
                 => \E k \in DOMAIN Answer : Answer[k] = mine[i]

\* A query was cut at its limit: an older entry of the user was left out,
\* and the log holds another user's entries
C26_Witness ==
    /\ last.op = "get_audit_logs"
    /\ Len(Answer) = Limit
    /\ \E i \in DOMAIN LogsOf(FmStore, last.user_id), j \in DOMAIN Answer :
          LogsOf(FmStore, last.user_id)[i].timestamp < Answer[j].timestamp
    /\ Len(FmStore.audit_logs) > Len(LogsOf(FmStore, last.user_id))

\* mine[i] comes before mine[j] in a listing: it is newer, or as old and
\* inserted earlier
Before(mine, i, j) ==
    \/ mine[i].upload_time > mine[j].upload_time
    \/ mine[i].upload_time = mine[j].upload_time /\ i < j

\* C27: get_user_files(user_id, limit) returns active records of that user
\* by upload_time descending, records of equal upload_time in insertion
\* order, and min(limit, the number of those records) of them, the first
\* in that order.
C27_ListingOrder ==
    last.op = "get_user_files"
    => LET mine == ActiveOf(FmStore, last.user_id)
       IN  /\ Len(Answer) = IF Len(mine) < Limit THEN Len(mine) ELSE Limit
           /\ \E p \in [DOMAIN Answer -> DOMAIN mine] :
                 /\ \A i \in DOMAIN Answer : Answer[i] = mine[p[i]]
                 /\ \A i, j \in DOMAIN Answer : i < j => Before(mine, p[i], p[j])
                 /\ \A i \in DOMAIN Answer, k \in DOMAIN mine :
                       (\A j \in DOMAIN Answer : p[j] # k) => Before(mine, p[i], k)

\* C27 with the database's freedom: the same, but for the order among
\* records of equal upload_time
C27_ListingByTime ==
    last.op = "get_user_files"
    => LET mine == ActiveOf(FmStore, last.user_id)
       IN  /\ Len(Answer) = IF Len(mine) < Limit THEN Len(mine) ELSE Limit
           /\ Among(Answer, mine)
           /\ \A i, j \in DOMAIN Answer :
                 i < j => Answer[i].upload_time >= Answer[j].upload_time
           /\ \A i \in DOMAIN Answer, k \in DOMAIN mine :
                 mine[k].upload_time > Answer[i].upload_time
                 => \E j \in DOMAIN Answer : Answer[j] = mine[k]

----------------------------------------------------------------------------
(* Claims on delete_file and on the errors returned *)

\* C29: MegaWrapper.upload of empty content raises "File data is empty" and
\* stores nothing: the blobs on the disk, self.files and every folder's
\* list are as before, and no uuid was drawn.
C29_EmptyRejected ==
    [][\A dest \in DOMAIN m.folders \cup {0}, file \in DirectFiles :
          (file.content = EmptyContent /\ UploadTo(dest, file))
          => /\ ~last'.ret.success
             /\ last'.ret.error = <<"File data is empty">>
             /\ m' = m
             /\ nuuid' = nuuid]_vars

\* Empty content was handed to upload with a user's folder as dest, on a
\* wrapper that holds that user's blobs
C29_Witness ==
    /\ last.op = "upload_to"
    /\ last.ret.error = <<"File data is empty">>
    /\ last.user_id \in Users
    /\ \E blob \in DOMAIN m.files : m.files[blob].user_id = last.user_id

\* C28: after a delete_file that succeeded the record of the file is kept
\* with is_active false, and the blob of the file is still in the Object
\* Store: its entry in self.files and its file on the disk.
C28_SoftDelete ==
    (last.op = "delete" /\ last.ret.success)
    => /\ RecordsOf(FmStore, last.file_id) # {}
       /\ \A i \in RecordsOf(FmStore, last.file_id) : ~FmStore.files[i].is_active
       /\ \E blob \in DOMAIN m.files :
             /\ blob = uploaded[last.file_id].mega_file_id
             /\ m.files[blob].file_path \in DOMAIN m.blobs

\* The part of C28 the code keeps: the record stays, with is_active false
C28_RecordKept ==
    (last.op = "delete" /\ last.ret.success)
    => /\ RecordsOf(FmStore, last.file_id) # {}
       /\ \A i \in RecordsOf(FmStore, last.file_id) : ~FmStore.files[i].is_active

\* A first upload that succeeded, on a server that found its database
FirstUpload ==
    upload_file(NewMega, FALSE, NewStore, 0, 0, 1, ScenarioFile, "alice", Healthy)

\* What each workflow returns for one internal failure: upload_file when
\* the insert of the record fails, retrieve_file when the blob was altered
\* on the disk, delete_file when update_one fails
OneFailure(op) ==
    CASE op = "upload" ->
            upload_file(NewMega, FALSE, NewStore, 0, 0, 1, ScenarioFile, "alice",
                        {"store_file_metadata"}).ret
      [] op = "retrieve" ->
            retrieve_file([FirstUpload.m EXCEPT
                              !.blobs = [path \in DOMAIN @ |->
                                            [@[path] EXCEPT !.token = "altered"]]],
                          FALSE, FirstUpload.store, FirstUpload.clock, 1,
                          FirstUpload.ret.file_id, "alice", Healthy).ret
      [] op = "delete" ->
            delete_file(FirstUpload.m, FALSE, FirstUpload.store, FirstUpload.clock,
                        1, FirstUpload.ret.file_id, "alice", {"update_one"}).ret

\* C30: whatever fails inside upload_file, retrieve_file or delete_file, the
\* 500 response of the workflow is the same: it is the one the workflow
\* returns for any other internal failure.
C30_GenericErrors ==
    (last.op \in {"upload", "retrieve", "delete"} /\ last.ret.status = 500)
    => /\ OneFailure(last.op).status = 500
       /\ last.ret.error = OneFailure(last.op).error

----------------------------------------------------------------------------
(* Claims on the steps of retrieve_file *)

\* The download entries the audit log holds for a file
DownloadEntries(store, file_id) ==
    {i \in DOMAIN store.audit_logs :
        /\ store.audit_logs[i].action = "file_download"
        /\ store.audit_logs[i].file_id = file_id}

\* Thread t is in a retrieve_file of the file and has read its blob
HasRead(t, file_id) ==
    /\ threads[t].op = "retrieve"
    /\ threads[t].file_id = file_id
    /\ threads[t].pc # "done"
    /\ threads[t].file_data # NoData

\* C31: a step raises the access_count of a file only for a retrieve_file
\* that has read the blob, a step appends a download entry only for a
\* retrieve_file that has read the blob and counted the access, and the
\* step in which a retrieve_file fails on the blob changes no record and
\* appends no entry.
C31_CountAfterRead ==
    [][/\ \A file_id \in KnownIds :
             /\ AccessCount(FmStore', file_id) # AccessCount(FmStore, file_id)
                => \E t \in Threads : HasRead(t, file_id)
             /\ DownloadEntries(FmStore', file_id) # DownloadEntries(FmStore, file_id)
                => \E t \in Threads :
                      /\ HasRead(t, file_id)
                      /\ threads[t].pc = "log_download"
                      /\ threads'[t].ret.success
       /\ \A t \in Threads :
             (/\ threads[t].op = "retrieve"
              /\ threads[t].pc # "done"
              /\ threads'[t].pc = "done"
              /\ threads'[t].ret.status = 500)
             => FmStore' = FmStore
      ]_vars

\* A retrieve_file by the owner has failed on the blob, and the record of
\* the file counts no access
C31_Witness ==
    \E t \in Threads :
        /\ threads[t].pc = "done"
        /\ threads[t].op = "retrieve"
        /\ threads[t].ret.status = 500
        /\ threads[t].file_id \in DOMAIN uploaded
        /\ AccessCount(FmStore, threads[t].file_id) = 0
        /\ DownloadEntries(FmStore, threads[t].file_id) = {}

----------------------------------------------------------------------------
(* Claims on the routes *)

\* C32: the /retrieve route answers the owner of an active file with
\* status 200, the bytes and the filename of the file, and the /delete
\* route answers a delete_file that succeeded with status 200.
C32_RoutesReportSuccess ==
    /\ (/\ last.op = "GET /retrieve"
        /\ last.file_id \in DOMAIN uploaded \ deleted
        /\ last.user_id = Owner(last.file_id))
       => /\ last.ret.status = 200
          /\ last.ret.file_data = uploaded[last.file_id].content
    /\ (last.op = "DELETE /delete" /\ last.ret.returned.success)
       => last.ret.status = 200

\* The part of C32 the code keeps: the routes hand on the errors of the
\* workflows with their status
C32_RoutesReportErrors ==
    (last.op \in {"GET /retrieve", "DELETE /delete"} /\ ~last.ret.returned.success)
    => /\ last.ret.status = last.ret.returned.status
       /\ last.ret.body = last.ret.returned.error

\* All threads have returned from a retrieve_file of one file that
\* succeeded
AllRetrieved ==
    \A t \in Threads :
        /\ threads[t].pc = "done"
        /\ threads[t].op = "retrieve"
        /\ threads[t].ret.success
        /\ threads[t].file_id = threads["t1"].file_id

\* C33: when the retrieve_file calls of the threads, all of one file and
\* interleaved at any point, have all succeeded, the access_count of the
\* file's record is higher by the number of the threads.
C33_NoLostIncrement ==
    AllRetrieved
    => AccessCount(FmStore, threads["t1"].file_id) = Cardinality(Threads)

\* The part of C33 the code keeps: on the database no increment is lost
C33_DatabaseCounts == ~use_memory => C33_NoLostIncrement

----------------------------------------------------------------------------
(* Claims on uploads that fail *)

\* C34: an upload_file that returns an error, for a file the validation
\* refuses, a blob the disk refuses or a record the database refuses,
\* leaves no record of the file_id it drew, appends no audit entry and
\* leaves every user's listing as it was.
C34_FailedUploadLeavesNothing ==
    [][\A user_id \in Users, file \in Files, dt \in Ticks, failing \in UploadFaults :
          (Upload(user_id, file, dt, failing) /\ ~last'.ret.success)
          => /\ RecordsOf(FmStore', nuuid + 1) = {}
             /\ FmStore'.audit_logs = FmStore.audit_logs
             /\ \A other \in Users :
                   get_user_files_list(use_memory, FmStore', other)
                      = get_user_files_list(use_memory, FmStore, other)
      ]_vars

\* An upload_file has failed on the insert of the record after its blob
\* was written, for a user who has a file listed
C34_Witness ==
    /\ last.op = "upload"
    /\ last.ret.error = <<"Failed to store file metadata">>
    /\ get_user_files_list(use_memory, FmStore, last.user_id).files # << >>
    /\ OrphanBlobs # {}

----------------------------------------------------------------------------
(* Claims on a delete_file of somebody else's file *)

\* What retrieve_file answers the owner of file_id in the state after the step
OwnerRetrieves(file_id) ==
    retrieve_file(m', use_memory, FmStore', clock', 1, file_id, Owner(file_id),
                  Healthy).ret

\* C35: a delete_file of a stored file by a user who is not its owner
\* answers "Access denied" with 403 and changes neither the blobs of the
\* Object Store nor any record, and a retrieve_file by the owner after it
\* succeeds with the content that was uploaded.
C35_DeleteByOther ==
    [][(/\ last'.op = "delete"
        /\ Delete(last'.user_id, last'.file_id, 1, Healthy)
        /\ last'.file_id \in DOMAIN uploaded
        /\ last'.file_id \notin deleted
        /\ last'.user_id # Owner(last'.file_id))
       => /\ last'.ret.status = 403
          /\ last'.ret.error = <<"Access denied">>
          /\ m'.files = m.files
          /\ FmStore'.files = FmStore.files
          /\ OwnerRetrieves(last'.file_id).success
          /\ OwnerRetrieves(last'.file_id).file_data
                = uploaded[last'.file_id].content
      ]_vars

\* A user has been denied the deletion of a file its owner has downloaded
C35_Witness ==
    /\ last.op = "delete"
    /\ last.ret.status = 403
    /\ last.file_id \in DOMAIN uploaded
    /\ last.user_id # Owner(last.file_id)
    /\ AccessCount(FmStore, last.file_id) = 1
    /\ m.files[uploaded[last.file_id].mega_file_id].user_id = Owner(last.file_id)

----------------------------------------------------------------------------
(* Claims on the records and the entries they name *)

\* The active records of the store behind file_manager.db
ActiveRecords == {i \in DOMAIN FmStore.files : FmStore.files[i].is_active}

InterruptedDelete ==
    /\ last'.op = "delete"
    /\ last'.ret.error = <<"Deletion failed: ", "update_one">>

----------------------------------------------------------------------------
(* Claims on MegaWrapper.download called on the wrapper *)

\* The content that was uploaded into the entry mega_file_id
ContentOf(mega_file_id) ==
    {uploaded[f].content : f \in {g \in DOMAIN uploaded :
                                     uploaded[g].mega_file_id = mega_file_id}}

\* C37: download called with no requesting_user_id returns the decrypted
\* content of the stored file, whoever its owner is, and adds one to the
\* access_count of its entry; called with a user it does so if and only if
\* the entry carries that user, and otherwise raises "Access denied" and
\* leaves the wrapper as it was.
C37_DownloadWithoutUser ==
    [][(last'.op = "download" /\ Download(last'.user_id, last'.file_id))
       => LET f == last'.file_id
              returned == /\ last'.ret.success
                          /\ ContentOf(f) = {last'.ret.file_data}
                          /\ m'.files[f].access_count = m.files[f].access_count + 1
              denied == /\ ~last'.ret.success
                        /\ last'.ret.error
                             = <<"Access denied - File not in user's folder">>
                        /\ m' = m
          IN  IF last'.user_id = NoUser \/ m.files[f].user_id = last'.user_id
              THEN returned
              ELSE denied
      ]_vars

\* download with no requesting_user_id has returned the content of a file
\* of a user, and the count of its entry went from 0 to 1
C37_Witness ==
    /\ last.op = "download"
    /\ last.user_id = NoUser
    /\ last.ret.success
    /\ last.file_id \in DOMAIN m.files
    /\ m.files[last.file_id].user_id \in Users
    /\ m.files[last.file_id].access_count = 1
    /\ last.ret.file_data \in ContentOf(last.file_id)

====
